---- MODULE Spec2Model ----
(***************************************************************************)
(* A model of the bounding-volume kernel of iand/geom: intervals, AABB,    *)
(* OBB, Plane3, Rect, the SAT intersection test, the MTV resolver and the  *)
(* raycasts.                                                               *)
(*                                                                         *)
(* Numbers.  The code computes in float32.  The model computes exactly, on *)
(* rationals whose denominators are powers of Unit:                        *)
(*   - a world coordinate (Position, Size, Origin) is an integer;          *)
(*   - a "fixed" vector (an axis, a corner, a direction) holds integers in *)
(*     units of 1/Unit, so X3 is <<Unit, 0, 0>>;                           *)
(*   - Dot and Cross of two fixed vectors are in units of 1/Unit^2.        *)
(* Every comparison of the code is made between two numbers of the same    *)
(* unit.  Rounding error of float32 is not modelled; the special values    *)
(* the code can produce (+Inf, -Inf, NaN) are, in the raycasts.            *)
(*                                                                         *)
(* A unit quaternion is held as an integer 4-tuple q = <<w, x, y, z>>      *)
(* standing for q / sqrt(QNorm(q)); QNorm(q) divides Unit, so the rotation *)
(* of a world vector is exact in units of 1/Unit.                          *)
(***************************************************************************)
EXTENDS Integers, Sequences, FiniteSets, TLC

VARIABLES
    op,     \* the last operation called ("init" before any call)
    a,      \* the receiver: a shape instance (AABB, OBB, Rect or Plane3); a box
            \* carries its scratch arrays
    b,      \* the second shape instance of a two-shape query
    arg,    \* the other argument of the query: a ray, a point or an axis
    ret,    \* what the last operation returned, a record of its results
    calls   \* the queries in flight, one per goroutine, each with the memory
            \* accesses it makes and its position among them; empty when the
            \* queries are called one after the other

vars == <<op, a, b, arg, ret, calls>>

----------------------------------------------------------------------------
(* Bounds of the inputs *)

MaxPos == 3

MaxSize == 1

\* plane distances are within MaxDist of the origin
MaxDist == 1

\* the boxes and rectangles of the MTV queries: centres within MaxMTVPos of
\* the origin on every axis, half sizes in 1..MaxMTVSize
MaxMTVPos == 1

MaxMTVSize == 2

\* the boxes of the single-box queries have half sizes in 0..MaxBoxSize
MaxBoxSize == 1

\* the ends of the intervals of the interval queries are within MaxEnd of 0
MaxEnd == 2

\* a Translate step moves by 0, MaxStep or 2 * MaxStep thousandths on each
\* axis, and a Transform travels at most MaxTravel thousandths from the origin
MaxStep == 4

MaxTravel == 12

\* a Transform position holds integers in units of 1/PosScale: maxDiff of cmp
\* is 0.005
PosScale == 1000

\* the scale of a Transform is at most MaxScale on every axis
MaxScale == 2

\* the spheres have radii in 1..MaxRadius
MaxRadius == 2

\* a query point holds integers in units of 1/PointScale: the points of
\* TestOBBContainsPoint3 are given to the hundredth (2.01)
PointScale == 100

\* the distance of the far ray origins of TestPlane3Raycast
RayFar == 100

----------------------------------------------------------------------------
(* mgl32 vectors and quaternions *)

Abs(x) == IF x < 0 THEN -x ELSE x

Min2(x, y) == IF x < y THEN x ELSE y

Max2(x, y) == IF x > y THEN x ELSE y

Zero3 == <<0, 0, 0>>

Dot(u, v) == u[1] * v[1] + u[2] * v[2] + u[3] * v[3]

Cross(u, v) ==
    << u[2] * v[3] - u[3] * v[2],
       u[3] * v[1] - u[1] * v[3],
       u[1] * v[2] - u[2] * v[1] >>

Add3(u, v) == << u[1] + v[1], u[2] + v[2], u[3] + v[3] >>

Sub3(u, v) == << u[1] - v[1], u[2] - v[2], u[3] - v[3] >>

Mul3(u, c) == << u[1] * c, u[2] * c, u[3] * c >>

QuatIdent == <<1, 0, 0, 0>>

\* the identity rotation written as the quaternion -1: not equal to QuatIdent
QuatNegIdent == <<-1, 0, 0, 0>>

\* rotation about Z with cos = 3/5, sin = 4/5
QuatRotZ == <<2, 0, 0, 1>>

\* rotation about X with cos = 3/5, sin = 4/5
QuatRotX == <<2, 1, 0, 0>>

Quats == {QuatIdent, QuatNegIdent, QuatRotZ, QuatRotX}

QNorm(q) == q[1] * q[1] + q[2] * q[2] + q[3] * q[3] + q[4] * q[4]

\* the least common multiple of the quaternion norms: the denominator of
\* every rotated world vector
Unit ==
    LET bound == QNorm(QuatRotZ) * QNorm(QuatRotX)
    IN  CHOOSE u \in 1..bound :
            /\ \A q \in Quats : u % QNorm(q) = 0
            /\ \A t \in 1..(u - 1) : \E q \in Quats : t % QNorm(q) # 0

X3 == <<Unit, 0, 0>>

Y3 == <<0, Unit, 0>>

Z3 == <<0, 0, Unit>>

\* mgl32 Quat.Rotate: v + 2w (V x v) + 2 V x (V x v), for the unit
\* quaternion q / sqrt(QNorm(q)); v is a world vector in units of 1/Unit
Rotate(q, v) ==
    LET V     == <<q[2], q[3], q[4]>>
        cross == Cross(V, v)
        sum   == Add3(Mul3(cross, 2 * q[1]), Cross(Mul3(V, 2), cross))
        n     == QNorm(q)
    IN  << v[1] + sum[1] \div n, v[2] + sum[2] \div n, v[3] + sum[3] \div n >>

ISqrt(x) == CHOOSE r \in 0..x : r * r <= x /\ (r + 1) * (r + 1) > x

\* mgl32 Vec3.Normalize of a fixed vector: v * (1 / Len(v))
Normalize(v) ==
    LET len == ISqrt(Dot(v, v))
    IN  IF len = 0 THEN v
        ELSE << (v[1] * Unit) \div len, (v[2] * Unit) \div len, (v[3] * Unit) \div len >>

----------------------------------------------------------------------------
(* float32 values of the raycasts: an exact rational n/d (d > 0, reduced), or *)
(* one of the special values +Inf, -Inf, NaN, or the smallest non-zero float *)
(* (Tiny, with a sign), which the code only ever divides by.  Zero has no    *)
(* sign: every zero of the model is +0.                                      *)

RECURSIVE GCD(_, _)
GCD(x, y) == IF y = 0 THEN x ELSE GCD(y, x % y)

Fin(n, d) ==
    LET g == GCD(Abs(n), Abs(d))
        sg == IF d < 0 THEN -1 ELSE 1
    IN  [k |-> "fin", n |-> (sg * n) \div g, d |-> (sg * d) \div g]

FInt(i) == [k |-> "fin", n |-> i, d |-> 1]

FZero == FInt(0)

FInf(sign) == [k |-> "inf", n |-> sign, d |-> 0]

FNaN == [k |-> "nan", n |-> 0, d |-> 0]

\* math.SmallestNonzeroFloat32 with the given sign
FTiny(sign) == [k |-> "tiny", n |-> sign, d |-> 0]

Sign(i) == IF i < 0 THEN -1 ELSE IF i > 0 THEN 1 ELSE 0

\* a < b of float32: false when either is NaN
FLt(x, y) ==
    IF x.k = "nan" \/ y.k = "nan" THEN FALSE
    ELSE IF x.k = "inf" THEN x.n < 0 /\ ~(y.k = "inf" /\ y.n < 0)
    ELSE IF y.k = "inf" THEN y.n > 0
    ELSE x.n * y.d < y.n * x.d

FGt(x, y) == FLt(y, x)

\* a == b of float32
FEq(x, y) ==
    IF x.k = "nan" \/ y.k = "nan" THEN FALSE
    ELSE IF x.k = "inf" \/ y.k = "inf" THEN x.k = y.k /\ x.n = y.n
    ELSE x.n * y.d = y.n * x.d

FLe(x, y) == FLt(x, y) \/ FEq(x, y)

FGe(x, y) == FLe(y, x)

FNeg(x) == IF x.k = "nan" THEN x ELSE [x EXCEPT !.n = -x.n]

FAdd(x, y) ==
    IF x.k = "nan" \/ y.k = "nan" THEN FNaN
    ELSE IF x.k = "inf" /\ y.k = "inf" THEN (IF x.n = y.n THEN x ELSE FNaN)
    ELSE IF x.k = "inf" THEN x
    ELSE IF y.k = "inf" THEN y
    ELSE Fin(x.n * y.d + y.n * x.d, x.d * y.d)

FSub(x, y) == FAdd(x, FNeg(y))

FMul(x, y) ==
    IF x.k = "nan" \/ y.k = "nan" THEN FNaN
    ELSE IF x.k = "inf" \/ y.k = "inf"
         THEN (IF x.n = 0 \/ y.n = 0 THEN FNaN ELSE FInf(Sign(x.n) * Sign(y.n)))
    ELSE Fin(x.n * y.n, x.d * y.d)

\* x / y of float32.  A non-zero x of the model divided by Tiny overflows to
\* an infinity; dividing by zero gives an infinity or, for 0/0, NaN
FDiv(x, y) ==
    IF x.k = "nan" \/ y.k = "nan" THEN FNaN
    ELSE IF y.k = "tiny"
         THEN (IF x.k = "inf" THEN FInf(x.n * y.n)
               ELSE IF x.n = 0 THEN FZero
               ELSE FInf(Sign(x.n) * y.n))
    ELSE IF x.k = "inf"
         THEN (IF y.k = "inf" THEN FNaN
               ELSE FInf(x.n * (IF y.n < 0 THEN -1 ELSE 1)))
    ELSE IF y.k = "inf" THEN FZero
    ELSE IF y.n = 0 THEN (IF x.n = 0 THEN FNaN ELSE FInf(Sign(x.n)))
    ELSE Fin(x.n * y.d, x.d * y.n)

\* math.go abs
FAbs(x) ==
    IF FLt(x, FZero) THEN FNeg(x)
    ELSE IF FEq(x, FZero) THEN FZero
    ELSE x

\* math.go max and min: the second argument unless the comparison holds
FMax(x, y) == IF FGt(x, y) THEN x ELSE y

FMin(x, y) == IF FLt(x, y) THEN x ELSE y

\* math.go nonzero: v, or the smallest non-zero float with the sign of v
Nonzero(v) == IF ~FEq(v, FZero) THEN v ELSE FTiny(1)

\* math.go cmp: closely equal, by absolute or relative difference
Cmp(x, y) ==
    LET maxDiff    == Fin(5, 1000)
        maxRelDiff == Fin(1, 100000)
        diff       == FAbs(FSub(x, y))
        largest    == FMax(FAbs(x), FAbs(y))
    IN  IF FLe(diff, maxDiff) THEN TRUE
        ELSE FLe(diff, FMul(largest, maxRelDiff))

\* a fixed vector (units of 1/Unit) and a world vector as float32 vectors
FixedToF(v) == << Fin(v[1], Unit), Fin(v[2], Unit), Fin(v[3], Unit) >>

WorldToF(v) == << FInt(v[1]), FInt(v[2]), FInt(v[3]) >>

FDot(u, v) == FAdd(FAdd(FMul(u[1], v[1]), FMul(u[2], v[2])), FMul(u[3], v[3]))

FAdd3(u, v) == << FAdd(u[1], v[1]), FAdd(u[2], v[2]), FAdd(u[3], v[3]) >>

FSub3(u, v) == << FSub(u[1], v[1]), FSub(u[2], v[2]), FSub(u[3], v[3]) >>

FMul3(u, c) == << FMul(u[1], c), FMul(u[2], c), FMul(u[3], c) >>

----------------------------------------------------------------------------
(* Ray3 and RaycastResult *)

NewRay(origin, direction) == [kind |-> "Ray3", Origin |-> origin, Direction |-> direction]

\* Ray3.Point
RayPoint(ray, dist) == FAdd3(WorldToF(ray.Origin), FMul3(FixedToF(ray.Direction), dist))

\* the zero RaycastResult; Fail is RaycastFailUnknown
ZeroResult ==
    [Point |-> WorldToF(Zero3), Normal |-> Zero3, Distance |-> FZero, Fail |-> "Unknown"]

\* a plausible slip: the failure returns without a reason
RaycastFailureNoReason(reason) == [hit |-> FALSE, res |-> ZeroResult]

\* res.Fail = reason; return res, false
RaycastFailure(reason) == [hit |-> FALSE, res |-> [ZeroResult EXCEPT !.Fail = reason]]

----------------------------------------------------------------------------
(* Plane3 *)

NewPlane3(normal, distance) == [kind |-> "Plane3", Normal |-> normal, Distance |-> distance]

\* a plausible slip: t computed without the negation
Plane3RaycastNoNeg(p, ray) ==
    LET nd == FDot(FixedToF(ray.Direction), FixedToF(p.Normal))
        pn == FDot(WorldToF(ray.Origin), FixedToF(p.Normal))
        t  == FDiv(FAdd(FInt(p.Distance), pn), nd)
    IN  IF FGe(nd, FZero) THEN RaycastFailure("PlaneFacesAwayFromRay")
        ELSE IF FGe(t, FZero)
             THEN [hit |-> TRUE,
                   res |-> [Point    |-> FAdd3(WorldToF(ray.Origin),
                                               FMul3(FixedToF(ray.Direction), t)),
                            Normal   |-> Normalize(p.Normal),
                            Distance |-> t,
                            Fail     |-> "Unknown"]]
             ELSE RaycastFailure("TargetBehindRayOrigin")

\* a plausible slip: the facing test reversed (nd <= 0 fails)
Plane3RaycastFacing(p, ray) ==
    LET nd == FDot(FixedToF(ray.Direction), FixedToF(p.Normal))
        pn == FDot(WorldToF(ray.Origin), FixedToF(p.Normal))
        t  == FDiv(FNeg(FAdd(FInt(p.Distance), pn)), nd)
    IN  IF FLe(nd, FZero) THEN RaycastFailure("PlaneFacesAwayFromRay")
        ELSE IF FGe(t, FZero)
             THEN [hit |-> TRUE,
                   res |-> [Point    |-> FAdd3(WorldToF(ray.Origin),
                                               FMul3(FixedToF(ray.Direction), t)),
                            Normal   |-> Normalize(p.Normal),
                            Distance |-> t,
                            Fail     |-> "Unknown"]]
             ELSE RaycastFailure("TargetBehindRayOrigin")

Plane3Raycast(p, ray) ==
    LET nd == FDot(FixedToF(ray.Direction), FixedToF(p.Normal))
        pn == FDot(WorldToF(ray.Origin), FixedToF(p.Normal))
        t  == FDiv(FNeg(FAdd(FInt(p.Distance), pn)), nd)
    IN  IF FGe(nd, FZero) THEN RaycastFailure("PlaneFacesAwayFromRay")
        ELSE IF FGe(t, FZero)
             THEN [hit |-> TRUE,
                   res |-> [Point    |-> FAdd3(WorldToF(ray.Origin),
                                               FMul3(FixedToF(ray.Direction), t)),
                            Normal   |-> Normalize(p.Normal),
                            Distance |-> t,
                            Fail     |-> "Unknown"]]
             ELSE RaycastFailure("TargetBehindRayOrigin")

\* Plane3.ClosestPoint; point is a float32 vector
Plane3ClosestPoint(p, point) ==
    LET distance == FSub(FDot(FixedToF(p.Normal), point), FInt(p.Distance))
    IN  FSub3(point, FMul3(FixedToF(p.Normal), distance))

\* Plane3.ContainsPoint3; point is a float32 vector
Plane3ContainsPoint3(p, point) ==
    Cmp(FSub(FDot(point, FixedToF(p.Normal)), FInt(p.Distance)), FZero)

----------------------------------------------------------------------------
(* Numbers with a square root.  Sphere.Raycast takes one square root, of a    *)
(* rational; every number it computes afterwards is p + q * sqrt(N) for that  *)
(* one integer N, with p and q rational.  Such a number is a float32 value    *)
(* (q = 0) or the record [k |-> "surd", p, q, N] with q # 0 and N no square.  *)

SP(x) == IF x.k = "surd" THEN x.p ELSE x

SQ(x) == IF x.k = "surd" THEN x.q ELSE FZero

SN(x, y) == IF x.k = "surd" THEN x.N ELSE IF y.k = "surd" THEN y.N ELSE 0

SMake(p, q, N) == IF FEq(q, FZero) THEN p ELSE [k |-> "surd", p |-> p, q |-> q, N |-> N]

SAdd(x, y) == SMake(FAdd(SP(x), SP(y)), FAdd(SQ(x), SQ(y)), SN(x, y))

SSub(x, y) == SMake(FSub(SP(x), SP(y)), FSub(SQ(x), SQ(y)), SN(x, y))

SMul(x, y) ==
    SMake(FAdd(FMul(SP(x), SP(y)), FMul(FMul(SQ(x), SQ(y)), FInt(SN(x, y)))),
          FAdd(FMul(SP(x), SQ(y)), FMul(SQ(x), SP(y))),
          SN(x, y))

\* the sign of p + q * sqrt(N)
SSign(x) ==
    LET p == Sign(SP(x).n)
        q == Sign(SQ(x).n)
    IN  IF q = 0 \/ p = q THEN p
        ELSE IF p = 0 THEN q
        ELSE IF FGt(FMul(SP(x), SP(x)), FMul(FMul(SQ(x), SQ(x)), FInt(x.N))) THEN p
        ELSE q

\* the integer square root of x, by bisection of lo..hi
RECURSIVE SqrtSearch(_, _, _)
SqrtSearch(lo, hi, x) ==
    IF lo >= hi THEN lo
    ELSE LET mid == (lo + hi + 1) \div 2
         IN  IF mid * mid <= x THEN SqrtSearch(mid, hi, x) ELSE SqrtSearch(lo, mid - 1, x)

\* math.go sqrt of a rational x = n/d >= 0: sqrt(n * d) / d.  The square root
\* of a number that is not rational is not a number of the model
SSqrt(x) ==
    IF x.k # "fin" THEN FNaN
    ELSE LET M == x.n * x.d
             r == SqrtSearch(0, M, M)
         IN  IF r * r = M THEN Fin(r, x.d) ELSE SMake(FZero, Fin(1, x.d), M)

SAdd3(u, v) == << SAdd(u[1], v[1]), SAdd(u[2], v[2]), SAdd(u[3], v[3]) >>

SSub3(u, v) == << SSub(u[1], v[1]), SSub(u[2], v[2]), SSub(u[3], v[3]) >>

SMul3(u, c) == << SMul(u[1], c), SMul(u[2], c), SMul(u[3], c) >>

\* mgl32 Vec3.Normalize: v * (1 / Len(v)); Len(v) is rational for the points of
\* a sphere
SNormalize(v) ==
    LET len == SSqrt(SAdd(SAdd(SMul(v[1], v[1]), SMul(v[2], v[2])), SMul(v[3], v[3])))
    IN  IF len.k # "fin" THEN << FNaN, FNaN, FNaN >>
        ELSE SMul3(v, FDiv(FInt(1), len))

----------------------------------------------------------------------------
(* Sphere *)

NewSphere(pos, radius) == [kind |-> "Sphere", Position |-> pos, Radius |-> radius]

\* Sphere.Raycast.  Point and Normal of a hit are vectors of numbers with a
\* square root
SphereRaycast(s, ray) ==
    LET dir      == FixedToF(ray.Direction)
        e        == WorldToF(Sub3(s.Position, ray.Origin))
        rSquared == FInt(s.Radius * s.Radius)
        eMagnitudeSquared == FDot(e, e)
        aa       == FDot(e, dir)
        bSquared == FSub(eMagnitudeSquared, FMul(aa, aa))
        f        == SSqrt(FAbs(FSub(rSquared, bSquared)))
        t        == IF FLt(eMagnitudeSquared, rSquared) THEN SAdd(aa, f) ELSE SSub(aa, f)
        point    == SAdd3(WorldToF(ray.Origin), SMul3(dir, t))
    IN  IF FLt(FSub(rSquared, bSquared), FZero) THEN RaycastFailure("OutsideBounds")
        ELSE [hit |-> TRUE,
              res |-> [Point    |-> point,
                       Normal   |-> SNormalize(SSub3(point, WorldToF(s.Position))),
                       Distance |-> t,
                       Fail     |-> "Unknown"]]

----------------------------------------------------------------------------
(* Interval *)

\* a plausible slip: open intervals, touching does not count
OverlapsStrict(i, i2) == (i2.Min < i.Max) /\ (i.Min < i2.Max)

Overlaps(i, i2) == (i2.Min <= i.Max) /\ (i.Min <= i2.Max)

NewInterval(mn, mx) == [Min |-> mn, Max |-> mx]

\* a plausible slip: the amount computed without the test for overlap
GetOverlapNoTest(i, i2) == Min2(i.Max, i2.Max) - Max2(i.Min, i2.Min)

\* Interval.GetOverlap
GetOverlap(i, i2) ==
    IF ~Overlaps(i, i2) THEN 0
    ELSE Min2(i.Max, i2.Max) - Max2(i.Min, i2.Min)

----------------------------------------------------------------------------
(* AABB *)

\* AABB.Min and AABB.Max, in world units
AABBMin(box) ==
    LET p1 == Add3(box.Position, box.Size)
        p2 == Sub3(box.Position, box.Size)
    IN  << Min2(p1[1], p2[1]), Min2(p1[2], p2[2]), Min2(p1[3], p2[3]) >>

AABBMax(box) ==
    LET p1 == Add3(box.Position, box.Size)
        p2 == Sub3(box.Position, box.Size)
    IN  << Max2(p1[1], p2[1]), Max2(p1[2], p2[2]), Max2(p1[3], p2[3]) >>

\* the zero value of the corners and axes scratch arrays
ZeroCorners == [i \in 1..8 |-> Zero3]

ZeroAxes == [i \in 1..3 |-> Zero3]

\* the element of a.corners each of the eight assignments of AABB.Corners
\* writes (Go index 0 is index 1 here)
AABBCornerSlot == [k \in 1..8 |-> 1]

\* the scratch array after assignments k..8 of AABB.Corners
RECURSIVE AABBAssign(_, _, _)
AABBAssign(arr, pts, k) ==
    IF k > 8 THEN arr
    ELSE AABBAssign([arr EXCEPT ![AABBCornerSlot[k]] = pts[k]], pts, k + 1)

\* the points the eight assignments of AABB.Corners store, in order; the
\* corners are fixed vectors
AABBCornerPoints(box) ==
    LET mn == Mul3(AABBMin(box), Unit)
        mx == Mul3(AABBMax(box), Unit)
    IN  << <<mn[1], mx[2], mx[3]>>, <<mn[1], mx[2], mn[3]>>,
           <<mn[1], mn[2], mx[3]>>, <<mn[1], mn[2], mn[3]>>,
           <<mx[1], mx[2], mx[3]>>, <<mx[1], mx[2], mn[3]>>,
           <<mx[1], mn[2], mx[3]>>, <<mx[1], mn[2], mn[3]>> >>

\* AABB.Corners: the eight assignments in order, then the whole scratch array
AABBCorners(box) == AABBAssign(box.corners, AABBCornerPoints(box), 1)

AABBAxes == << X3, Y3, Z3 >>

\* a fresh AABB{Position, Size}: its scratch array is zero
NewAABB(pos, size) ==
    [kind |-> "AABB", Position |-> pos, Size |-> size, Orientation |-> QuatIdent,
     axes |-> ZeroAxes, corners |-> ZeroCorners]

NewOBB(pos, size, q) ==
    [kind |-> "OBB", Position |-> pos, Size |-> size, Orientation |-> q,
     axes |-> ZeroAxes, corners |-> ZeroCorners]

AABBIntersectsAABB(x, y) ==
    LET aMin == AABBMin(x)
        aMax == AABBMax(x)
        bMin == AABBMin(y)
        bMax == AABBMax(y)
    IN  /\ aMin[1] <= bMax[1] /\ aMax[1] >= bMin[1]
        /\ aMin[2] <= bMax[2] /\ aMax[2] >= bMin[2]
        /\ aMin[3] <= bMax[3] /\ aMax[3] >= bMin[3]

----------------------------------------------------------------------------
(* MTV: AABB.MTVAABB and Rect.MTVRect, on world coordinates *)

\* the loop of MTVAABB: for i := 0; i < 3; i++.  st holds axis (0 before any
\* is chosen), minOverlap (isMax while it is still maxFloat32) and sign
RECURSIVE MTVLoop(_, _, _, _)
MTVLoop(x, y, i, st) ==
    IF i < 3
    THEN LET aint == NewInterval(AABBMin(x)[i + 1], AABBMax(x)[i + 1])
             bint == NewInterval(AABBMin(y)[i + 1], AABBMax(y)[i + 1])
             overlap == GetOverlap(aint, bint)
         IN  IF st.isMax \/ overlap < st.minOverlap
             THEN MTVLoop(x, y, i + 1,
                      [isMax |-> FALSE, minOverlap |-> overlap, axis |-> i + 1,
                       sign |-> IF x.Position[i + 1] < y.Position[i + 1] THEN -1 ELSE 1])
             ELSE MTVLoop(x, y, i + 1, st)
    ELSE st

\* the unit vector of axis k, scaled by c
AxisVec3(k, c) == [i \in 1..3 |-> IF i = k THEN c ELSE 0]

\* a plausible slip: the last test is minOverlap < 0
MTVAABBTouching(x, y) ==
    IF ~AABBIntersectsAABB(x, y) THEN [ok |-> FALSE, vec |-> Zero3]
    ELSE LET st == MTVLoop(x, y, 0, [isMax |-> TRUE, minOverlap |-> 0, axis |-> 0, sign |-> 1])
         IN  IF st.minOverlap < 0 THEN [ok |-> FALSE, vec |-> Zero3]
             ELSE [ok |-> TRUE, vec |-> AxisVec3(st.axis, st.sign * st.minOverlap)]

MTVAABB(x, y) ==
    IF ~AABBIntersectsAABB(x, y) THEN [ok |-> FALSE, vec |-> Zero3]
    ELSE LET st == MTVLoop(x, y, 0, [isMax |-> TRUE, minOverlap |-> 0, axis |-> 0, sign |-> 1])
         IN  IF st.minOverlap <= 0 THEN [ok |-> FALSE, vec |-> Zero3]
             ELSE [ok |-> TRUE, vec |-> AxisVec3(st.axis, st.sign * st.minOverlap)]

NewRect(pos, size) == [kind |-> "Rect", Position |-> pos, Size |-> size]

RectMin(r) ==
    << Min2(r.Position[1] + r.Size[1], r.Position[1] - r.Size[1]),
       Min2(r.Position[2] + r.Size[2], r.Position[2] - r.Size[2]) >>

RectMax(r) ==
    << Max2(r.Position[1] + r.Size[1], r.Position[1] - r.Size[1]),
       Max2(r.Position[2] + r.Size[2], r.Position[2] - r.Size[2]) >>

MTVRect(r, r2) ==
    LET rMin == RectMin(r)
        rMax == RectMax(r)
        r2Min == RectMin(r2)
        r2Max == RectMax(r2)
        overlap0 == GetOverlap(NewInterval(rMin[1], rMax[1]), NewInterval(r2Min[1], r2Max[1]))
        overlap1 == GetOverlap(NewInterval(rMin[2], rMax[2]), NewInterval(r2Min[2], r2Max[2]))
    IN  IF overlap0 = 0 \/ overlap1 = 0 THEN [ok |-> FALSE, vec |-> <<0, 0>>]
        ELSE IF overlap0 < overlap1
             THEN (IF rMin[1] < r2Min[1] THEN [ok |-> TRUE, vec |-> <<overlap0, 0>>]
                   ELSE [ok |-> TRUE, vec |-> <<-overlap0, 0>>])
        ELSE IF rMin[2] < r2Min[2] THEN [ok |-> TRUE, vec |-> <<0, overlap1>>]
        ELSE [ok |-> TRUE, vec |-> <<0, -overlap1>>]

----------------------------------------------------------------------------
(* OBB *)

\* the eight sign patterns of OBB.Corners, in the order of its assignments
OBBCornerSigns ==
    << << 1,  1,  1>>, << 1,  1, -1>>, << 1, -1,  1>>, << 1, -1, -1>>,
       <<-1,  1,  1>>, <<-1,  1, -1>>, <<-1, -1,  1>>, <<-1, -1, -1>> >>

\* OBB.Corners of a rotated box: Orientation.Rotate(Position +- Size)
OBBRotatedCorners(box) ==
    [k \in 1..8 |->
        Rotate(box.Orientation,
               Mul3(<< box.Position[1] + OBBCornerSigns[k][1] * box.Size[1],
                       box.Position[2] + OBBCornerSigns[k][2] * box.Size[2],
                       box.Position[3] + OBBCornerSigns[k][3] * box.Size[3] >>, Unit))]

\* OBB.Axes of a rotated box
OBBRotatedAxes(q) ==
    << Normalize(Rotate(q, X3)), Normalize(Rotate(q, Y3)), Normalize(Rotate(q, Z3)) >>

\* the rotated axes of every orientation of the model, computed once
AxesTable == [q \in Quats |-> OBBRotatedAxes(q)]

----------------------------------------------------------------------------
(* Box3: the methods of AABB and OBB, dispatched on the kind *)

IsIdentityOBB(box) == box.kind = "OBB" /\ box.Orientation = QuatIdent

\* a plausible slip: the identity OBB takes the rotated path
CornersNoFastPath(box) ==
    IF box.kind = "AABB" THEN AABBCorners(box) ELSE OBBRotatedCorners(box)

\* Corners(): the slice the call returns
Corners(box) ==
    IF box.kind = "AABB" THEN AABBCorners(box)
    ELSE IF box.Orientation = QuatIdent
         THEN AABBCorners(NewAABB(box.Position, box.Size))
         ELSE OBBRotatedCorners(box)

\* Axes(): the slice the call returns
Axes(box) ==
    IF box.kind = "AABB" THEN AABBAxes
    ELSE IF box.Orientation = QuatIdent THEN AABBAxes
         ELSE AxesTable[box.Orientation]

\* the loop of AABB.ProjectOntoAxis and OBB.ProjectOntoAxis: for i := 1; i < 8; i++
RECURSIVE ProjectLoop(_, _, _, _)
ProjectLoop(vertex, axis, i, in) ==
    IF i < 8
    THEN LET projection == Dot(axis, vertex[i + 1])
         IN  ProjectLoop(vertex, axis, i + 1,
                 [Min |-> IF projection < in.Min THEN projection ELSE in.Min,
                  Max |-> IF projection > in.Max THEN projection ELSE in.Max])
    ELSE in

ProjectVertices(vertex, axis) ==
    LET first == Dot(axis, vertex[1])
    IN  ProjectLoop(vertex, axis, 1, [Min |-> first, Max |-> first])

ProjectOntoAxis(box, axis) == ProjectVertices(Corners(box), axis)

\* the instance after a call of Corners() or ProjectOntoAxis(): an AABB and a
\* rotated OBB keep the corners in their scratch array, an identity OBB works
\* on a temporary AABB
AfterCorners(box) ==
    IF IsIdentityOBB(box) THEN box ELSE [box EXCEPT !.corners = Corners(box)]

\* the instance after a call of Axes(): only a rotated OBB writes its scratch
AfterAxes(box) ==
    IF box.kind = "OBB" /\ box.Orientation # QuatIdent
    THEN [box EXCEPT !.axes = Axes(box)]
    ELSE box

\* a plausible slip: a zero axis counts as separating
OverlapOnAxisNonZero(x, y, axis) ==
    LET i1 == ProjectOntoAxis(x, axis)
        i2 == ProjectOntoAxis(y, axis)
    IN  axis # Zero3 /\ Overlaps(i1, i2)

OverlapOnAxis(x, y, axis) ==
    LET i1 == ProjectOntoAxis(x, axis)
        i2 == ProjectOntoAxis(y, axis)
    IN  Overlaps(i1, i2)

----------------------------------------------------------------------------
(* Raycast, ContainsPoint3 and Normals of the boxes *)

aabbNormals ==
    << Mul3(X3, -1), X3, Mul3(Y3, -1), Y3, Mul3(Z3, -1), Z3 >>

\* the loop  for i := 0; i < 6; i++ { if cmp(res.Distance, t[i]) { res.Normal = normals[i] } }
RECURSIVE ClosestSide(_, _, _, _, _)
ClosestSide(dist, t, normals, i, normal) ==
    IF i < 6
    THEN ClosestSide(dist, t, normals, i + 1,
                     IF Cmp(dist, t[i + 1]) THEN normals[i + 1] ELSE normal)
    ELSE normal

\* a plausible slip: the two failure tests in the other order
SlabResultOutsideFirst(ray, t, normals) ==
    LET tmin == FMax(FMax(FMin(t[1], t[2]), FMin(t[3], t[4])), FMin(t[5], t[6]))
        tmax == FMin(FMin(FMax(t[1], t[2]), FMax(t[3], t[4])), FMax(t[5], t[6]))
        dist == IF FLt(tmin, FZero) THEN tmax ELSE tmin
    IN  IF FGt(tmin, tmax) THEN RaycastFailure("OutsideBounds")
        ELSE IF FLt(tmax, FZero) THEN RaycastFailure("TargetBehindRayOrigin")
        ELSE [hit |-> TRUE,
              res |-> [Point    |-> RayPoint(ray, dist),
                       Normal   |-> ClosestSide(dist, t, normals, 0, Zero3),
                       Distance |-> dist,
                       Fail     |-> "Unknown"]]

\* the part AABB.Raycast and OBB.Raycast share: from the six slab distances t
\* to the result; normals are already normalized
SlabResult(ray, t, normals) ==
    LET tmin == FMax(FMax(FMin(t[1], t[2]), FMin(t[3], t[4])), FMin(t[5], t[6]))
        tmax == FMin(FMin(FMax(t[1], t[2]), FMax(t[3], t[4])), FMax(t[5], t[6]))
        dist == IF FLt(tmin, FZero) THEN tmax ELSE tmin
    IN  IF FLt(tmax, FZero) THEN RaycastFailure("TargetBehindRayOrigin")
        ELSE IF FGt(tmin, tmax) THEN RaycastFailure("OutsideBounds")
        ELSE [hit |-> TRUE,
              res |-> [Point    |-> RayPoint(ray, dist),
                       Normal   |-> ClosestSide(dist, t, normals, 0, Zero3),
                       Distance |-> dist,
                       Fail     |-> "Unknown"]]

\* the three divisors of the slab distances of AABB.Raycast
AABBDivisors(ray) ==
    LET dir == FixedToF(ray.Direction)
    IN  << Nonzero(dir[1]), Nonzero(dir[2]), Nonzero(dir[3]) >>

AABBRaycast(box, ray) ==
    LET amin == WorldToF(AABBMin(box))
        amax == WorldToF(AABBMax(box))
        o    == WorldToF(ray.Origin)
        g    == AABBDivisors(ray)
        t == << FDiv(FSub(amin[1], o[1]), g[1]),
                FDiv(FSub(amax[1], o[1]), g[1]),
                FDiv(FSub(amin[2], o[2]), g[2]),
                FDiv(FSub(amax[2], o[2]), g[2]),
                FDiv(FSub(amin[3], o[3]), g[3]),
                FDiv(FSub(amax[3], o[3]), g[3]) >>
    IN  SlabResult(ray, t, aabbNormals)

\* the test of OBB.Raycast on axis i when f[i] is close to 0: the ray origin
\* is outside the slab
OutsideSlab(e, size, i) ==
    \/ FGt(FSub(FNeg(e[i]), size[i]), FZero)
    \/ FLt(FAdd(FNeg(e[i]), size[i]), FZero)

\* f of OBB.Raycast: the direction of the ray along the axes of the box
OBBDirection(box, ray) ==
    [i \in 1..3 |-> FDot(FixedToF(Axes(box)[i]), FixedToF(ray.Direction))]

\* the axis the if / else if / else if chain of OBB.Raycast handles, 0 if none
OBBNearAxis(f) ==
    IF Cmp(f[1], FZero) THEN 1
    ELSE IF Cmp(f[2], FZero) THEN 2
    ELSE IF Cmp(f[3], FZero) THEN 3
    ELSE 0

\* f when the slab distances are computed: the three divisors
OBBDivisors(box, ray) ==
    LET f == OBBDirection(box, ray)
    IN  [i \in 1..3 |-> IF i = OBBNearAxis(f) THEN Nonzero(f[i]) ELSE f[i]]

OBBRaycast(box, ray) ==
    LET axes == Axes(box)
        f    == OBBDirection(box, ray)
        p    == WorldToF(Sub3(box.Position, ray.Origin))
        e    == [i \in 1..3 |-> FDot(FixedToF(axes[i]), p)]
        size == WorldToF(box.Size)
        near == OBBNearAxis(f)
        g    == OBBDivisors(box, ray)
        t == << FDiv(FAdd(e[1], size[1]), g[1]),
                FDiv(FSub(e[1], size[1]), g[1]),
                FDiv(FAdd(e[2], size[2]), g[2]),
                FDiv(FSub(e[2], size[2]), g[2]),
                FDiv(FAdd(e[3], size[3]), g[3]),
                FDiv(FSub(e[3], size[3]), g[3]) >>
        normals == << Normalize(axes[1]), Normalize(Mul3(axes[1], -1)),
                      Normalize(axes[2]), Normalize(Mul3(axes[2], -1)),
                      Normalize(axes[3]), Normalize(Mul3(axes[3], -1)) >>
    IN  IF near # 0 /\ OutsideSlab(e, size, near) THEN RaycastFailure("OutsideBounds")
        ELSE SlabResult(ray, t, normals)

\* AABB.ContainsPoint3; pt is in units of 1/PointScale
AABBContainsPoint3(box, pt) ==
    LET mn == Mul3(AABBMin(box), PointScale)
        mx == Mul3(AABBMax(box), PointScale)
    IN  IF pt[1] < mn[1] \/ pt[2] < mn[2] \/ pt[3] < mn[3] THEN FALSE
        ELSE IF pt[1] > mx[1] \/ pt[2] > mx[2] \/ pt[3] > mx[3] THEN FALSE
        ELSE TRUE

\* the loop of OBB.ContainsPoint3; dir is in units of 1/PointScale and
\* distance in units of 1/(PointScale * Unit)
RECURSIVE OBBContainsLoop(_, _, _, _)
OBBContainsLoop(box, dir, axes, i) ==
    IF i < 3
    THEN LET distance == Dot(dir, axes[i + 1])
         IN  IF distance > box.Size[i + 1] * PointScale * Unit THEN FALSE
             ELSE IF distance < -box.Size[i + 1] * PointScale * Unit THEN FALSE
             ELSE OBBContainsLoop(box, dir, axes, i + 1)
    ELSE TRUE

\* a plausible slip: the rotated box tests pt, not pt - Position
ContainsPoint3NoTranslate(box, pt) ==
    IF box.kind = "AABB" THEN AABBContainsPoint3(box, pt)
    ELSE IF box.Orientation = QuatIdent
         THEN AABBContainsPoint3(NewAABB(box.Position, box.Size), pt)
         ELSE OBBContainsLoop(box, pt, Axes(box), 0)

\* ContainsPoint3(pt); pt is in units of 1/PointScale
ContainsPoint3(box, pt) ==
    IF box.kind = "AABB" THEN AABBContainsPoint3(box, pt)
    ELSE IF box.Orientation = QuatIdent
         THEN AABBContainsPoint3(NewAABB(box.Position, box.Size), pt)
         ELSE OBBContainsLoop(box, Sub3(pt, Mul3(box.Position, PointScale)), Axes(box), 0)

Normals(box) ==
    IF box.kind = "AABB" THEN aabbNormals
    ELSE IF box.Orientation = QuatIdent THEN aabbNormals
         ELSE << Normalize(Rotate(box.Orientation, Mul3(X3, -1))),
                 Normalize(Rotate(box.Orientation, X3)),
                 Normalize(Rotate(box.Orientation, Mul3(Y3, -1))),
                 Normalize(Rotate(box.Orientation, Y3)),
                 Normalize(Rotate(box.Orientation, Mul3(Z3, -1))),
                 Normalize(Rotate(box.Orientation, Z3)) >>

\* Raycastable.Raycast, dispatched on the kind of the shape
Raycast(shape, ray) ==
    IF shape.kind = "AABB" THEN AABBRaycast(shape, ray)
    ELSE IF shape.kind = "OBB" THEN OBBRaycast(shape, ray)
    ELSE IF shape.kind = "Plane3" THEN Plane3Raycast(shape, ray)
    ELSE SphereRaycast(shape, ray)

----------------------------------------------------------------------------
(* IntersectsBox3 *)

\* the first loop: for j := 0; j < len(axesb); j++
RECURSIVE SATLoopB(_, _, _, _)
SATLoopB(x, y, axesb, j) ==
    IF j < Len(axesb)
    THEN IF ~OverlapOnAxis(x, y, axesb[j + 1]) THEN FALSE
         ELSE SATLoopB(x, y, axesb, j + 1)
    ELSE TRUE

\* the nested loops.  The inner loop is  for j := 0; i < len(axesb); i++ :
\* its condition and its increment are on i, the outer loop's variable
RECURSIVE SATLoopA(_, _, _, _, _)
RECURSIVE SATLoopCross(_, _, _, _, _, _)
SATLoopA(x, y, axesa, axesb, i) ==
    IF i < Len(axesa)
    THEN IF ~OverlapOnAxis(x, y, axesa[i + 1]) THEN FALSE
         ELSE SATLoopCross(x, y, axesa, axesb, i, 0)
    ELSE TRUE

SATLoopCross(x, y, axesa, axesb, i, j) ==
    IF i < Len(axesb)
    THEN IF ~OverlapOnAxis(x, y, Cross(axesb[j + 1], axesa[i + 1])) THEN FALSE
         ELSE SATLoopCross(x, y, axesa, axesb, i + 1, j)
    ELSE SATLoopA(x, y, axesa, axesb, i + 1)

IntersectsBox3(x, y) ==
    LET axesa == Axes(x)
        axesb == Axes(y)
    IN  IF ~SATLoopB(x, y, axesb, 0) THEN FALSE
        ELSE SATLoopA(x, y, axesa, axesb, 0)

----------------------------------------------------------------------------
(* The inputs *)

\* the points on the three coordinate axes within MaxPos of the origin
Positions ==
    { <<c, 0, 0>> : c \in -MaxPos..MaxPos } \cup
    { <<0, c, 0>> : c \in -MaxPos..MaxPos } \cup
    { <<0, 0, c>> : c \in -MaxPos..MaxPos }

Sizes == { <<s, s, s>> : s \in 1..MaxSize }

Boxes ==
    { NewAABB(p, s) : p \in Positions, s \in Sizes } \cup
    { NewOBB(p, s, q) : p \in Positions, s \in Sizes, q \in Quats }

----------------------------------------------------------------------------
(* The specification of the SAT test: two box instances, queried repeatedly *)

\* no argument, nothing returned yet
NoArg == [kind |-> "none"]

NoRet == [kind |-> "none"]

\* no query in flight
NoCalls == << >>

Init ==
    /\ op = "init"
    /\ a \in Boxes
    /\ b \in Boxes
    /\ arg = NoArg
    /\ ret = NoRet
    /\ calls = NoCalls

\* IntersectsBox3(&a, &b): both instances have answered Axes() and
\* ProjectOntoAxis() at least once when it returns
CallIntersectsBox3 ==
    /\ op' = "IntersectsBox3"
    /\ ret' = [ok |-> IntersectsBox3(a, b)]
    /\ a' = AfterCorners(AfterAxes(a))
    /\ b' = AfterCorners(AfterAxes(b))
    /\ UNCHANGED <<arg, calls>>

\* a.IntersectsAABB(&b), for two AABBs
CallIntersectsAABB ==
    /\ a.kind = "AABB"
    /\ b.kind = "AABB"
    /\ op' = "IntersectsAABB"
    /\ ret' = [ok |-> AABBIntersectsAABB(a, b)]
    /\ UNCHANGED <<a, b, arg, calls>>

Next ==
    \/ CallIntersectsBox3
    \/ CallIntersectsAABB

Spec == Init /\ [][Next]_vars

----------------------------------------------------------------------------
(* Claims about IntersectsBox3 *)

\* the 15 candidate axes of the SAT for two boxes: the axes of each and the
\* nine cross products
FifteenAxes(x, y) ==
    { Axes(x)[i] : i \in 1..3 } \cup { Axes(y)[j] : j \in 1..3 } \cup
    { Cross(Axes(x)[i], Axes(y)[j]) : i \in 1..3, j \in 1..3 }

\* the two boxes have the same fields (the scratch arrays apart)
SameBox(x, y) ==
    /\ x.kind = y.kind
    /\ x.Position = y.Position
    /\ x.Size = y.Size
    /\ x.Orientation = y.Orientation

IsRotated(box) == box.kind = "OBB" /\ box.Orientation # QuatIdent

\* C1: IntersectsBox3(a, b) returns false whenever the projections of a and b
\* fail to overlap on any one of the 15 candidate axes (the 3 axes of a, the 3
\* axes of b and the 9 cross products).
C1_AllFifteenAxesTested ==
    op = "IntersectsBox3" =>
        ((\E axis \in FifteenAxes(a, b) : ~OverlapOnAxis(a, b, axis)) => ret.ok = FALSE)

\* C2: for two AABBs, IntersectsBox3(a, b) returns the same boolean as the
\* direct min/max comparison a.IntersectsAABB(b).
C2_AgreesWithMinMax ==
    (op = "IntersectsBox3" /\ a.kind = "AABB" /\ b.kind = "AABB") =>
        ret.ok = AABBIntersectsAABB(a, b)

\* C3: IntersectsBox3(a, b) = IntersectsBox3(b, a) for all boxes a and b.
C3_Symmetric ==
    op = "IntersectsBox3" => ret.ok = IntersectsBox3(b, a)

\* C4: IntersectsBox3(a, a) is true for every box a, AABB or OBB of any
\* orientation.
C4_Reflexive ==
    (op = "IntersectsBox3" /\ SameBox(a, b)) => ret.ok = TRUE

\* C4 witness: a rotated OBB was tested against itself and intersects
C4_Witness ==
    op = "IntersectsBox3" /\ SameBox(a, b) /\ IsRotated(a) /\ ret.ok = TRUE

----------------------------------------------------------------------------
(* The specification of the plane raycast: one plane, one ray *)

\* the unit vectors of the model: the axes of every orientation and their
\* opposites
UnitVectors ==
    { AxesTable[q][i] : q \in Quats, i \in 1..3 } \cup
    { Mul3(AxesTable[q][i], -1) : q \in Quats, i \in 1..3 }

\* the origins on the coordinate axes at distance RayFar
FarPoints ==
    { <<c, 0, 0>> : c \in {-RayFar, RayFar} } \cup
    { <<0, c, 0>> : c \in {-RayFar, RayFar} } \cup
    { <<0, 0, c>> : c \in {-RayFar, RayFar} }

Rays == { NewRay(o, dir) : o \in Positions \cup FarPoints, dir \in UnitVectors }

Planes == { NewPlane3(n, dist) : n \in UnitVectors, dist \in -MaxDist..MaxDist }

NoShape == [kind |-> "none"]

InitPlane ==
    /\ op = "init"
    /\ a \in Planes
    /\ b = NoShape
    /\ arg \in Rays
    /\ ret = NoRet
    /\ calls = NoCalls

\* a.Raycast(arg) on the plane a
CallPlane3Raycast ==
    /\ a.kind = "Plane3"
    /\ arg.kind = "Ray3"
    /\ op' = "Plane3.Raycast"
    /\ ret' = Plane3Raycast(a, arg)
    /\ UNCHANGED <<a, b, arg, calls>>

\* a.ContainsPoint3(res.Point) for the point of the hit just reported
CallPlane3ContainsPoint3 ==
    /\ op = "Plane3.Raycast"
    /\ ret.hit = TRUE
    /\ op' = "Plane3.ContainsPoint3"
    /\ arg' = [kind |-> "Point3", v |-> ret.res.Point]
    /\ ret' = [ok |-> Plane3ContainsPoint3(a, ret.res.Point)]
    /\ UNCHANGED <<a, b, calls>>

\* a.ClosestPoint(res.Point) for the point of the hit just reported
CallPlane3ClosestPoint ==
    /\ op = "Plane3.Raycast"
    /\ ret.hit = TRUE
    /\ op' = "Plane3.ClosestPoint"
    /\ arg' = [kind |-> "Point3", v |-> ret.res.Point]
    /\ ret' = [point |-> Plane3ClosestPoint(a, ret.res.Point)]
    /\ UNCHANGED <<a, b, calls>>

NextPlane ==
    \/ CallPlane3Raycast
    \/ CallPlane3ContainsPoint3
    \/ CallPlane3ClosestPoint

SpecPlane == InitPlane /\ [][NextPlane]_vars

----------------------------------------------------------------------------
(* Claims about Plane3.Raycast *)

\* the float32 value is the rational n/d
IsRational(x, n, d) == x.k = "fin" /\ x.n * d = n * x.d

\* the float32 vector is the world point p
IsWorldPoint(v, p) == \A i \in 1..3 : IsRational(v[i], p[i], 1)

xzPlane3 == NewPlane3(Y3, 0)

yRay3 == NewRay(<<0, -RayFar, 0>>, Y3)

yInvRay3 == NewRay(<<0, RayFar, 0>>, Mul3(Y3, -1))

\* the ray of the second half of C9: from (0,-100,0) in direction (0,-1,0)
yAwayRay3 == NewRay(<<0, -RayFar, 0>>, Mul3(Y3, -1))

\* C9 as stated: for the plane with normal (0,1,0) and distance 0, the ray
\* from (0,-100,0) in direction (0,1,0) hits with Distance 100, Point (0,0,0)
\* and Normal (0,1,0), and the ray from (0,-100,0) in direction (0,-1,0) fails
\* with PlaneFacesAwayFromRay.
C9_AsStated ==
    (op = "Plane3.Raycast" /\ a = xzPlane3) =>
        /\ arg = yRay3 =>
              /\ ret.hit = TRUE
              /\ IsRational(ret.res.Distance, RayFar, 1)
              /\ IsWorldPoint(ret.res.Point, Zero3)
              /\ ret.res.Normal = Y3
        /\ arg = yAwayRay3 =>
              /\ ret.hit = FALSE
              /\ ret.res.Fail = "PlaneFacesAwayFromRay"

\* C9 amended: for the plane with normal (0,1,0) and distance 0, the ray from
\* (0,-100,0) in direction (0,1,0) fails with PlaneFacesAwayFromRay, the ray
\* from (0,-100,0) in direction (0,-1,0) fails with TargetBehindRayOrigin, and
\* the ray from (0,100,0) in direction (0,-1,0) hits with Distance 100, Point
\* (0,0,0) and Normal (0,1,0).
C9_Amended ==
    (op = "Plane3.Raycast" /\ a = xzPlane3) =>
        /\ arg = yRay3 =>
              /\ ret.hit = FALSE
              /\ ret.res.Fail = "PlaneFacesAwayFromRay"
        /\ arg = yAwayRay3 =>
              /\ ret.hit = FALSE
              /\ ret.res.Fail = "TargetBehindRayOrigin"
        /\ arg = yInvRay3 =>
              /\ ret.hit = TRUE
              /\ ret.res.Fail = "Unknown"
              /\ IsRational(ret.res.Distance, RayFar, 1)
              /\ IsWorldPoint(ret.res.Point, Zero3)
              /\ ret.res.Normal = Y3

\* C9 witness: the raycast of the ray from (0,-100,0) in direction (0,1,0)
\* against the plane has returned
C9_Witness ==
    op = "Plane3.Raycast" /\ a = xzPlane3 /\ arg = yRay3 /\ ret.hit = FALSE

\* the planes through the origin perpendicular to a coordinate axis, and the
\* rays of TestPlane3Raycast: from RayFar on an axis towards the origin
AxisPlanes == { NewPlane3(n, 0) : n \in {X3, Y3, Z3, Mul3(X3, -1), Mul3(Y3, -1), Mul3(Z3, -1)} }

AxisRays == { NewRay(o, <<-Sign(o[1]) * Unit, -Sign(o[2]) * Unit, -Sign(o[3]) * Unit>>) : o \in FarPoints }

\* C10: with nd = Direction.Normal, Plane3.Raycast fails with
\* PlaneFacesAwayFromRay iff nd >= 0; otherwise, with t = -(Distance +
\* Origin.Normal)/nd, it fails with TargetBehindRayOrigin iff t < 0 and else
\* hits with Distance = t, Point = Origin + Direction*t and Normal = the plane
\* normal.  For an axis plane through the origin and a ray from 100 units away
\* on that axis towards the origin, it hits iff the normal points toward the
\* ray origin.
C10_PlaneRaycast ==
    op = "Plane3.Raycast" =>
        LET nd == Dot(arg.Direction, a.Normal)              \* in units of 1/Unit^2
            x  == a.Distance * Unit + Dot(arg.Origin, a.Normal)  \* Distance + pn, in 1/Unit
            \* t = -x / (nd / Unit) = tn / td
            tn == x * Unit
            td == -nd
            dist == ret.res.Distance
        IN  /\ (ret.hit = FALSE /\ ret.res.Fail = "PlaneFacesAwayFromRay") <=> nd >= 0
            /\ nd < 0 =>
                  /\ (ret.hit = FALSE /\ ret.res.Fail = "TargetBehindRayOrigin") <=> tn < 0
                  /\ tn >= 0 =>
                        /\ ret.hit = TRUE
                        /\ ret.res.Fail = "Unknown"
                        /\ IsRational(dist, tn, td)
                        /\ \A i \in 1..3 :
                              IsRational(ret.res.Point[i],
                                         arg.Origin[i] * Unit * td + arg.Direction[i] * tn,
                                         Unit * td)
                        /\ ret.res.Normal = a.Normal
            /\ (a \in AxisPlanes /\ arg \in AxisRays /\ Dot(arg.Origin, a.Normal) # 0) =>
                  (ret.hit <=> Dot(arg.Origin, a.Normal) > 0)

\* C10 witness: a ray hit a plane that is not perpendicular to a coordinate
\* axis, at a positive distance
C10_Witness ==
    /\ op = "Plane3.Raycast"
    /\ ret.hit = TRUE
    /\ FGt(ret.res.Distance, FZero)
    /\ a \notin AxisPlanes
    /\ a.Distance # 0

----------------------------------------------------------------------------
(* The specification of the MTV queries: two AABBs or two rectangles *)

MTVCoords == -MaxMTVPos..MaxMTVPos

MTVExtents == 1..MaxMTVSize

\* the first box is centred at the origin
MTVFirstBoxes == { NewAABB(Zero3, <<s1, s2, s3>>) : s1 \in MTVExtents, s2 \in MTVExtents, s3 \in MTVExtents }

MTVPositions == { <<x, y, z>> : x \in MTVCoords, y \in MTVCoords, z \in MTVCoords }

MTVSecondBoxes ==
    { NewAABB(p, <<s1, s2, s3>>) : p \in MTVPositions, s1 \in MTVExtents, s2 \in MTVExtents, s3 \in MTVExtents }

Rects == { NewRect(<<x, y>>, <<w, h>>) : x \in MTVCoords, y \in MTVCoords, w \in MTVExtents, h \in MTVExtents }

\* offsets along one axis at which the second shape touches the first or lies
\* apart from it
MTVApartOffsets == {-5, -3, -2, 2, 3, 5}

MTVApartBoxes ==
    { NewAABB(AxisVec3(k, c), <<s1, s2, s3>>) :
        k \in 1..3, c \in MTVApartOffsets, s1 \in MTVExtents, s2 \in MTVExtents, s3 \in MTVExtents }

MTVApartRects ==
    { NewRect(<<c, 0>>, <<w, h>>) : c \in MTVApartOffsets, w \in MTVExtents, h \in MTVExtents } \cup
    { NewRect(<<0, c>>, <<w, h>>) : c \in MTVApartOffsets, w \in MTVExtents, h \in MTVExtents }

InitMTV ==
    /\ op = "init"
    /\ \/ a \in MTVFirstBoxes /\ b \in MTVSecondBoxes \cup MTVApartBoxes
       \/ a \in Rects /\ b \in Rects \cup MTVApartRects
    /\ arg = NoArg
    /\ ret = NoRet
    /\ calls = NoCalls

\* a.MTVAABB(&b)
CallMTVAABB ==
    /\ a.kind = "AABB"
    /\ b.kind = "AABB"
    /\ op' = "MTVAABB"
    /\ ret' = MTVAABB(a, b)
    /\ UNCHANGED <<a, b, arg, calls>>

\* a.MTVRect(&b)
CallMTVRect ==
    /\ a.kind = "Rect"
    /\ b.kind = "Rect"
    /\ op' = "MTVRect"
    /\ ret' = MTVRect(a, b)
    /\ UNCHANGED <<a, b, arg, calls>>

NextMTV ==
    \/ CallMTVAABB
    \/ CallMTVRect

SpecMTV == InitMTV /\ [][NextMTV]_vars

----------------------------------------------------------------------------
(* Claims about the MTV *)

\* the shape moved by v
Translated(shape, v) == [shape EXCEPT !.Position = [i \in DOMAIN v |-> shape.Position[i] + v[i]]]

\* the axis v lies on (0 for the zero vector)
AxisOf(v) == IF \E i \in DOMAIN v : v[i] # 0 THEN CHOOSE i \in DOMAIN v : v[i] # 0 ELSE 0

\* the overlap amount of two AABBs, and of two rectangles, on axis k
AABBOverlapOn(x, y, k) ==
    GetOverlap(NewInterval(AABBMin(x)[k], AABBMax(x)[k]), NewInterval(AABBMin(y)[k], AABBMax(y)[k]))

RectOverlapOn(x, y, k) ==
    GetOverlap(NewInterval(RectMin(x)[k], RectMax(x)[k]), NewInterval(RectMin(y)[k], RectMax(y)[k]))

\* C7: when a.MTVAABB(b) returns (true, v) for overlapping AABBs a and b, the
\* box b translated by v no longer overlaps a: a.IntersectsAABB(b') is false
\* or the overlap amount of a and b' on the axis of v is 0.
C7_MTVSeparates ==
    (op = "MTVAABB" /\ ret.ok = TRUE) =>
        LET b2 == Translated(b, ret.vec)
        IN  \/ ~AABBIntersectsAABB(a, b2)
            \/ AABBOverlapOn(a, b2, AxisOf(ret.vec)) = 0

\* C8: when r.MTVRect(r2) returns (true, v), the overlap amount of r and r2
\* translated by v on the axis of v is 0, so r.MTVRect on the translated r2
\* returns false; also when one rectangle lies inside the other.
C8_MTVRectSeparates ==
    (op = "MTVRect" /\ ret.ok = TRUE) =>
        LET r2 == Translated(b, ret.vec)
        IN  /\ RectOverlapOn(a, r2, AxisOf(ret.vec)) = 0
            /\ MTVRect(a, r2).ok = FALSE

----------------------------------------------------------------------------
(* The specification of the queries on one box: Corners, Axes, Normals,      *)
(* ProjectOntoAxis, ContainsPoint3 and Raycast                               *)

NewPoint(v) == [kind |-> "Point3", v |-> v]

NewAxis(v) == [kind |-> "Axis", v |-> v]

\* the centres of the queried boxes
QueryCentres == { Zero3, <<1, -1, 0>> }

\* half sizes that may be 0 on X and on Z
QuerySizes == { <<s1, MaxBoxSize, s3>> : s1 \in 0..MaxBoxSize, s3 \in 0..MaxBoxSize }

\* the box of the AABB tests and aaOBB: at the origin, half size (2,2,2)
aaAABB == NewAABB(Zero3, <<2, 2, 2>>)

aaOBB == NewOBB(Zero3, <<2, 2, 2>>, QuatIdent)

QueryBoxes ==
    { NewAABB(p, s) : p \in QueryCentres, s \in QuerySizes } \cup
    { NewOBB(p, s, q) : p \in QueryCentres, s \in QuerySizes, q \in Quats } \cup
    { aaAABB, aaOBB }

\* the ray that starts beyond the box on Z and points away from it
zAwayRay3 == NewRay(<<0, 0, 5>>, Z3)

QueryRays == Rays \cup { zAwayRay3 }

\* the points of TestOBBContainsPoint3 on and just beyond the boundary of aaOBB
BoundaryPoints ==
    { <<2 * PointScale, 2 * PointScale, 2 * PointScale>>,
      <<2 * PointScale + 1, 0, 0>>, <<0, 2 * PointScale + 1, 0>>, <<0, 0, 2 * PointScale + 1>> }

\* the grid points around the origin, the same points turned by every
\* orientation (they lie on the faces of the turned boxes), and the points of
\* the test
QueryPoints ==
    { NewPoint(Mul3(Rotate(q, Mul3(v, Unit)), PointScale \div Unit)) : v \in MTVPositions, q \in Quats } \cup
    { NewPoint(v) : v \in BoundaryPoints }

QueryAxes == { NewAxis(v) : v \in UnitVectors }

\* the planes and the spheres a ray is cast at
QueryPlanes == { p \in Planes : p.Distance >= 0 }

Spheres == { NewSphere(p, r) : p \in QueryCentres, r \in 1..MaxRadius }

\* a box answers every query; a plane and a sphere are only raycast
InitBox ==
    /\ op = "init"
    /\ \/ /\ a \in QueryBoxes
          /\ arg \in {NoArg} \cup QueryPoints \cup QueryAxes \cup QueryRays
       \/ /\ a \in QueryPlanes \cup Spheres
          /\ arg \in QueryRays
    /\ b = NoShape
    /\ ret = NoRet
    /\ calls = NoCalls

CallCorners ==
    /\ arg.kind = "none"
    /\ op' = "Corners"
    /\ ret' = [corners |-> Corners(a)]
    /\ a' = AfterCorners(a)
    /\ UNCHANGED <<b, arg, calls>>

CallAxes ==
    /\ arg.kind = "none"
    /\ op' = "Axes"
    /\ ret' = [axes |-> Axes(a)]
    /\ a' = AfterAxes(a)
    /\ UNCHANGED <<b, arg, calls>>

CallNormals ==
    /\ arg.kind = "none"
    /\ op' = "Normals"
    /\ ret' = [normals |-> Normals(a)]
    /\ UNCHANGED <<a, b, arg, calls>>

CallProjectOntoAxis ==
    /\ arg.kind = "Axis"
    /\ op' = "ProjectOntoAxis"
    /\ ret' = [interval |-> ProjectOntoAxis(a, arg.v)]
    /\ a' = AfterCorners(a)
    /\ UNCHANGED <<b, arg, calls>>

\* a rotated OBB calls Axes() in ContainsPoint3 and in Raycast
CallContainsPoint3 ==
    /\ arg.kind = "Point3"
    /\ op' = "ContainsPoint3"
    /\ ret' = [ok |-> ContainsPoint3(a, arg.v)]
    /\ a' = AfterAxes(a)
    /\ UNCHANGED <<b, arg, calls>>

\* a.Raycast(arg) on a box, a plane or a sphere
CallRaycast ==
    /\ arg.kind = "Ray3"
    /\ op' = "Raycast"
    /\ ret' = Raycast(a, arg)
    /\ a' = AfterAxes(a)
    /\ UNCHANGED <<b, arg, calls>>

NextBox ==
    \/ CallCorners
    \/ CallAxes
    \/ CallNormals
    \/ CallProjectOntoAxis
    \/ CallContainsPoint3
    \/ CallRaycast

SpecBox == InitBox /\ [][NextBox]_vars

----------------------------------------------------------------------------
(* Claims about the identity-orientation OBB *)

\* the AABB with the Position and Size of the box
AsAABB(box) == NewAABB(box.Position, box.Size)

\* C5: for an OBB whose Orientation is the identity quaternion and every ray,
\* OBB.Raycast returns the same result as AABB.Raycast on the AABB with the
\* same Position and Size: the same hit flag, the same Fail reason, and on a
\* hit the same Distance, Point and Normal.
C5_IdentityRaycast ==
    (op = "Raycast" /\ IsIdentityOBB(a)) =>
        LET want == AABBRaycast(AsAABB(a), arg)
        IN  /\ ret.hit = want.hit
            /\ ret.res.Fail = want.res.Fail
            /\ ret.hit =>
                  /\ ret.res.Distance = want.res.Distance
                  /\ ret.res.Point = want.res.Point
                  /\ ret.res.Normal = want.res.Normal

\* C6: for an OBB whose Orientation equals the identity quaternion, Axes(),
\* Corners(), Normals(), ProjectOntoAxis(axis) and ContainsPoint3(pt) return
\* exactly what the same methods return on AABB{Position, Size}.
C6_IdentityFastPath ==
    IsIdentityOBB(a) =>
        /\ op = "Axes" => ret.axes = AABBAxes
        /\ op = "Corners" => ret.corners = AABBCorners(AsAABB(a))
        /\ op = "Normals" => ret.normals = aabbNormals
        /\ op = "ProjectOntoAxis" =>
              ret.interval = ProjectVertices(AABBCorners(AsAABB(a)), arg.v)
        /\ op = "ContainsPoint3" => ret.ok = AABBContainsPoint3(AsAABB(a), arg.v)

\* C6 witness: an identity OBB away from the origin was projected onto an
\* axis and the interval is not a point
C6_Witness ==
    /\ op = "ProjectOntoAxis"
    /\ IsIdentityOBB(a)
    /\ a.Position # Zero3
    /\ ret.interval.Min < ret.interval.Max

----------------------------------------------------------------------------
(* Claims about the raycast results *)

IsBox(shape) == shape.kind \in {"AABB", "OBB"}

FailReasons == {"OutsideBounds", "TargetBehindRayOrigin", "PlaneFacesAwayFromRay"}

\* C11: for Raycast on an AABB, an OBB, a Plane3 and a Sphere and every ray,
\* the call returns hit = false iff result.Fail is OutsideBounds,
\* TargetBehindRayOrigin or PlaneFacesAwayFromRay, and hit = true iff
\* result.Fail is Unknown; on failure Point, Normal and Distance are left at
\* their zero values.
C11_FailReason ==
    op = "Raycast" =>
        /\ ret.hit = FALSE <=> ret.res.Fail \in FailReasons
        /\ ret.hit = TRUE <=> ret.res.Fail = "Unknown"
        /\ ret.hit = FALSE =>
              /\ ret.res.Point = ZeroResult.Point
              /\ ret.res.Normal = ZeroResult.Normal
              /\ ret.res.Distance = ZeroResult.Distance

\* C11 witness: a ray has missed a sphere
C11_Witness ==
    op = "Raycast" /\ a.kind = "Sphere" /\ ret.hit = FALSE /\ ret.res.Fail = "OutsideBounds"

\* x >= 0, for a float32 value or a number with a square root
NonNegative(x) == IF x.k = "surd" THEN SSign(x) >= 0 ELSE FGe(x, FZero)

\* C12: whenever Raycast on an AABB, an OBB, a Plane3 or a Sphere reports
\* hit = true, result.Distance >= 0 and result.Point = ray.Origin +
\* ray.Direction * result.Distance; a shape met by the ray's supporting line
\* only at negative distances is reported as a failure, not as a hit.
C12_HitInFront ==
    (op = "Raycast" /\ ret.hit = TRUE) =>
        /\ NonNegative(ret.res.Distance)
        /\ ret.res.Point = SAdd3(WorldToF(arg.Origin),
                                 SMul3(FixedToF(arg.Direction), ret.res.Distance))

----------------------------------------------------------------------------
(* Claims about AABB.Raycast *)

\* the distances along the ray to the two faces of the box on axis i, the
\* zero direction component replaced by nonzero()
SlabDistances(box, ray, i) ==
    LET dir == Nonzero(FixedToF(ray.Direction)[i])
    IN  { FDiv(FSub(FInt(AABBMin(box)[i]), FInt(ray.Origin[i])), dir),
          FDiv(FSub(FInt(AABBMax(box)[i]), FInt(ray.Origin[i])), dir) }

\* the least and the greatest of a set of float32 values without NaN
Least(S) == CHOOSE x \in S : \A y \in S : FLe(x, y)

Greatest(S) == CHOOSE x \in S : \A y \in S : FGe(x, y)

\* C13: AABB.Raycast, with tmin the maximum of the three per-axis slab-entry
\* distances and tmax the minimum of the three per-axis slab-exit distances,
\* fails with TargetBehindRayOrigin when tmax < 0 (tested first), fails with
\* OutsideBounds when tmin > tmax, and otherwise hits with Distance = tmin if
\* tmin >= 0, else tmax.  The box at the origin with half size (2,2,2) and the
\* ray from (0,0,5) in direction (0,0,1) report TargetBehindRayOrigin.
C13_AABBSlabs ==
    (op = "Raycast" /\ a.kind = "AABB") =>
        LET tmin == Greatest({ Least(SlabDistances(a, arg, i)) : i \in 1..3 })
            tmax == Least({ Greatest(SlabDistances(a, arg, i)) : i \in 1..3 })
        IN  /\ IF FLt(tmax, FZero)
               THEN ret.hit = FALSE /\ ret.res.Fail = "TargetBehindRayOrigin"
               ELSE IF FGt(tmin, tmax)
               THEN ret.hit = FALSE /\ ret.res.Fail = "OutsideBounds"
               ELSE /\ ret.hit = TRUE
                    /\ ret.res.Distance = (IF FGe(tmin, FZero) THEN tmin ELSE tmax)
            /\ (a = aaAABB /\ arg = zAwayRay3) =>
                  (ret.hit = FALSE /\ ret.res.Fail = "TargetBehindRayOrigin")

\* C13 witness: the ray from (0,0,5) in direction (0,0,1) was cast at the box
\* at the origin with half size (2,2,2) and failed
C13_Witness ==
    op = "Raycast" /\ a = aaAABB /\ arg = zAwayRay3 /\ ret.hit = FALSE

----------------------------------------------------------------------------
(* Claims about ContainsPoint3 *)

\* the three local axes of a box
LocalAxes(box) == IF box.kind = "AABB" THEN AABBAxes ELSE Axes(box)

\* (pt - Position) . axis_i, in units of 1/(PointScale * Unit)
LocalCoordinate(box, pt, i) ==
    Dot(Sub3(pt, Mul3(box.Position, PointScale)), LocalAxes(box)[i])

\* C14: ContainsPoint3(pt) of an OBB is true iff for each of the three local
\* axes i the projection (pt - Position).axis_i lies in [-Size[i], Size[i]],
\* the boundary included, for identity and rotated orientations alike; for the
\* identity orientation and for an AABB this is Min()[i] <= pt[i] <= Max()[i].
\* The box at the origin with half size (2,2,2) contains (2,2,2) but not
\* (2.01,0,0), and a box with half size 0 on an axis contains only points
\* whose coordinate on that axis is the centre's.
C14_ContainsPoint3 ==
    op = "ContainsPoint3" =>
        /\ ret.ok <=> \A i \in 1..3 :
                         /\ -a.Size[i] * PointScale * Unit <= LocalCoordinate(a, arg.v, i)
                         /\ LocalCoordinate(a, arg.v, i) <= a.Size[i] * PointScale * Unit
        /\ (a.kind = "AABB" \/ IsIdentityOBB(a)) =>
              (ret.ok <=> \A i \in 1..3 :
                             /\ AABBMin(a)[i] * PointScale <= arg.v[i]
                             /\ arg.v[i] <= AABBMax(a)[i] * PointScale)
        /\ (a \in {aaAABB, aaOBB} /\ arg.v = <<2 * PointScale, 2 * PointScale, 2 * PointScale>>) =>
              ret.ok = TRUE
        /\ (a \in {aaAABB, aaOBB} /\ arg.v = <<2 * PointScale + 1, 0, 0>>) => ret.ok = FALSE
        /\ \A i \in 1..3 :
              (a.Size[i] = 0 /\ ret.ok) => LocalCoordinate(a, arg.v, i) = 0

\* C14 witness: a rotated OBB away from the origin contains a point of its
\* boundary that is not its centre
C14_Witness ==
    /\ op = "ContainsPoint3"
    /\ IsRotated(a)
    /\ a.Orientation # QuatNegIdent
    /\ a.Position # Zero3
    /\ ret.ok = TRUE
    /\ \E i \in 1..3 :
          /\ a.Size[i] > 0
          /\ LocalCoordinate(a, arg.v, i) = a.Size[i] * PointScale * Unit

----------------------------------------------------------------------------
(* Claims about the corners and the projection of an AABB *)

\* Position +- Size in every sign combination, as fixed vectors
EightCorners(box) ==
    { Mul3(<< box.Position[1] + s1 * box.Size[1],
              box.Position[2] + s2 * box.Size[2],
              box.Position[3] + s3 * box.Size[3] >>, Unit) :
        s1 \in {-1, 1}, s2 \in {-1, 1}, s3 \in {-1, 1} }

\* C15: for every AABB and every axis, Corners() returns the eight corner
\* points of the box (Position +- Size in every sign combination), and
\* ProjectOntoAxis(axis) returns the interval whose Min and Max are the
\* minimum and the maximum of axis.c over those eight corners; projecting onto
\* the X axis gives [Min()[0], Max()[0]].
C15_AABBCorners ==
    a.kind = "AABB" =>
        /\ op = "Corners" => { ret.corners[k] : k \in 1..8 } = EightCorners(a)
        /\ op = "ProjectOntoAxis" =>
              LET dots == { Dot(arg.v, c) : c \in EightCorners(a) }
              IN  /\ ret.interval.Min \in dots /\ \A x \in dots : ret.interval.Min <= x
                  /\ ret.interval.Max \in dots /\ \A x \in dots : ret.interval.Max >= x
                  /\ arg.v = X3 =>
                        /\ ret.interval.Min = AABBMin(a)[1] * Unit * Unit
                        /\ ret.interval.Max = AABBMax(a)[1] * Unit * Unit

----------------------------------------------------------------------------
(* Claims about the degenerate axes of IntersectsBox3 *)

\* the cross products among the 15 candidate axes
CrossAxes(x, y) == { Cross(Axes(y)[j], Axes(x)[i]) : i \in 1..3, j \in 1..3 }

\* C16: in IntersectsBox3 a candidate axis that is the zero vector (the cross
\* product of two parallel axes of a and b) never makes the function return
\* false: both boxes project to [0,0] on it, which counts as overlapping, so
\* boxes that overlap on every candidate axis that is not the zero vector are
\* reported as intersecting.
C16_ZeroAxis ==
    op = "IntersectsBox3" =>
        /\ Zero3 \in CrossAxes(a, b) =>
              /\ ProjectOntoAxis(a, Zero3) = NewInterval(0, 0)
              /\ ProjectOntoAxis(b, Zero3) = NewInterval(0, 0)
              /\ OverlapOnAxis(a, b, Zero3)
        /\ (\A axis \in FifteenAxes(a, b) \ {Zero3} : OverlapOnAxis(a, b, axis)) =>
              ret.ok = TRUE

\* C16 witness: two rotated boxes at different places whose first axes are
\* parallel (the first cross product the loops form is the zero vector) were
\* tested and intersect
C16_Witness ==
    /\ op = "IntersectsBox3"
    /\ IsRotated(a) /\ IsRotated(b)
    /\ a.Orientation = QuatRotX
    /\ a.Position # b.Position
    /\ Cross(Axes(b)[1], Axes(a)[1]) = Zero3
    /\ ret.ok = TRUE

----------------------------------------------------------------------------
(* The specification of the interval queries: two intervals *)

\* Interval is a plain struct: Min and Max are any two numbers
Intervals == { NewInterval(mn, mx) : mn \in -MaxEnd..MaxEnd, mx \in -MaxEnd..MaxEnd }

InitInterval ==
    /\ op = "init"
    /\ a \in Intervals
    /\ b \in Intervals
    /\ arg = NoArg
    /\ ret = NoRet
    /\ calls = NoCalls

\* a.Overlaps(b)
CallOverlaps ==
    /\ op' = "Overlaps"
    /\ ret' = [ok |-> Overlaps(a, b)]
    /\ UNCHANGED <<a, b, arg, calls>>

\* a.GetOverlap(b)
CallGetOverlap ==
    /\ op' = "GetOverlap"
    /\ ret' = [overlap |-> GetOverlap(a, b)]
    /\ UNCHANGED <<a, b, arg, calls>>

NextInterval ==
    \/ CallOverlaps
    \/ CallGetOverlap

SpecInterval == InitInterval /\ [][NextInterval]_vars

----------------------------------------------------------------------------
(* Claims about Interval *)

WellFormed(i) == i.Min <= i.Max

\* the least and the greatest of a set of integers
LeastOf(S) == CHOOSE x \in S : \A y \in S : x <= y

GreatestOf(S) == CHOOSE x \in S : \A y \in S : x >= y

\* C17: Overlaps(a, b) is true iff a.Min <= b.Max and b.Min <= a.Max (closed
\* intervals, touching counts); GetOverlap(a, b) returns 0 when they do not
\* overlap and otherwise min(a.Max, b.Max) - max(a.Min, b.Min), which is >= 0
\* for all intervals with Min <= Max; both are symmetric in a and b.
C17_Interval ==
    /\ op = "Overlaps" =>
          /\ ret.ok <=> (a.Min <= b.Max /\ b.Min <= a.Max)
          /\ ret.ok = Overlaps(b, a)
    /\ op = "GetOverlap" =>
          /\ ~(a.Min <= b.Max /\ b.Min <= a.Max) => ret.overlap = 0
          /\ (a.Min <= b.Max /\ b.Min <= a.Max) =>
                ret.overlap = LeastOf({a.Max, b.Max}) - GreatestOf({a.Min, b.Min})
          /\ (WellFormed(a) /\ WellFormed(b)) => ret.overlap >= 0
          /\ ret.overlap = GetOverlap(b, a)

\* C17 witness: two different intervals that touch in one point were asked
\* for their overlap, and it is 0 though they overlap
C17_Witness ==
    /\ op = "GetOverlap"
    /\ WellFormed(a) /\ WellFormed(b)
    /\ a.Min < a.Max /\ b.Min < b.Max
    /\ a.Max = b.Min
    /\ Overlaps(a, b)
    /\ ret.overlap = 0

----------------------------------------------------------------------------
(* Transform: position in units of 1/PosScale *)

\* math.go cmp on two numbers in units of 1/PosScale: maxDiff is 0.005 and
\* maxRelDiff is 0.00001
CmpScaled(x, y) ==
    LET diff    == Abs(x - y)
        largest == Max2(Abs(x), Abs(y))
    IN  IF diff * 1000 <= 5 * PosScale THEN TRUE
        ELSE diff * 100000 <= largest

\* math.go clampZero and clampZeroVec3
ClampZero(v) == IF CmpScaled(v, 0) THEN 0 ELSE v

ClampZeroVec3(v) == << ClampZero(v[1]), ClampZero(v[2]), ClampZero(v[3]) >>

\* the nil pointer of the matrix cache
NilMatrix == [kind |-> "nil"]

\* NewTransform(); the matrix cache is nil
NewTransform ==
    [kind |-> "Transform", position |-> Zero3,
     scale |-> <<PosScale, PosScale, PosScale>>, orientation |-> QuatIdent, matrix |-> NilMatrix]

\* Transform.SetPosition
SetPosition(t, v) == [t EXCEPT !.position = ClampZeroVec3(v), !.matrix = NilMatrix]

\* Transform.Translate
Translate(t, v) == SetPosition(t, Add3(t.position, v))

\* Transform.Pos
Pos(t) == t.position

\* Transform.TranslateAlong: v is in units of 1/PosScale, axis a fixed vector
TranslateAlong(t, v, axis) == Translate(t, << (axis[1] * v) \div Unit, (axis[2] * v) \div Unit, (axis[3] * v) \div Unit >>)

\* a plausible slip: SetScale leaves the cached matrix in place
SetScaleKeepCache(t, v) == [t EXCEPT !.scale = ClampZeroVec3(v)]

\* Transform.SetScale; the scale is in units of 1/PosScale
SetScale(t, v) == [t EXCEPT !.scale = ClampZeroVec3(v), !.matrix = NilMatrix]

\* Transform.SetScaleUniform
SetScaleUniform(t, v) == SetScale(t, <<v, v, v>>)

\* Transform.ScaleUniformBy; the factor v is a whole number
ScaleUniformBy(t, v) == SetScale(t, Mul3(t.scale, v))

\* mgl32 Quat.Normalize.  <<w, x, y, z>> stands for the unit quaternion
\* (w, x, y, z) / sqrt(QNorm): the normalized quaternion is the one whose
\* components have no common factor
QNormalize(q) ==
    LET g == GCD(GCD(Abs(q[1]), Abs(q[2])), GCD(Abs(q[3]), Abs(q[4])))
    IN  IF g = 0 THEN q ELSE << q[1] \div g, q[2] \div g, q[3] \div g, q[4] \div g >>

\* mgl32 Quat.Mul: (w1 w2 - V1.V2, V1 x V2 + w1 V2 + w2 V1)
QMul(q1, q2) ==
    LET V1 == <<q1[2], q1[3], q1[4]>>
        V2 == <<q2[2], q2[3], q2[4]>>
        V  == Add3(Add3(Cross(V1, V2), Mul3(V2, q1[1])), Mul3(V1, q2[1]))
    IN  << q1[1] * q2[1] - Dot(V1, V2), V[1], V[2], V[3] >>

\* Transform.SetOrientation
SetOrientation(t, q) == [t EXCEPT !.orientation = QNormalize(q), !.matrix = NilMatrix]

\* Transform.Rotate
TransformRotate(t, q) == SetOrientation(t, QMul(QNormalize(q), t.orientation))

\* mgl32 Quat.Mat4: the columns are the images of the three axes, as fixed
\* vectors
QuatMat4(q) == << Rotate(q, X3), Rotate(q, Y3), Rotate(q, Z3) >>

\* trans.Mul4(rot).Mul4(scale) of Matrix(): the first three columns are the
\* columns of rot times the scale of their axis, in units of
\* 1/(Unit * PosScale), and the fourth is the position; the last row is
\* (0, 0, 0, 1)
ComposeMatrix(position, orientation, scale) ==
    [cols |-> [i \in 1..3 |-> Mul3(QuatMat4(orientation)[i], scale[i])], pos |-> position]

\* Transform.Matrix: the matrix returned, and the Transform after the call
Matrix(t) ==
    IF t.matrix = NilMatrix THEN ComposeMatrix(t.position, t.orientation, t.scale) ELSE t.matrix

AfterMatrix(t) == [t EXCEPT !.matrix = Matrix(t)]

\* mgl32.Extract3DScale: the lengths of the first three columns
Extract3DScale(m) ==
    [i \in 1..3 |->
        LET col  == m.cols[i]
            most == Max2(Max2(Abs(col[1]), Abs(col[2])), Abs(col[3]))
        IN  SqrtSearch(0, 2 * most, Dot(col, col)) \div Unit]

\* mgl32.Mat4ToQuat of a rotation matrix with a positive trace: the unit
\* quaternion of that rotation with w > 0
Mat4ToQuat(rot) == CHOOSE q \in Quats : q[1] > 0 /\ QuatMat4(q) = rot

\* Transform.SetMatrix, for a matrix whose first three columns are not zero;
\* a column in units of 1/(Unit * PosScale) divided by a scale in units of
\* 1/PosScale is a fixed vector
SetMatrix(t, m) ==
    LET scale == Extract3DScale(m)
        rot   == [i \in 1..3 |->
                    << m.cols[i][1] \div scale[i],
                       m.cols[i][2] \div scale[i],
                       m.cols[i][3] \div scale[i] >>]
    IN  [t EXCEPT !.scale = << scale[1], scale[2], scale[3] >>,
                  !.position = m.pos,
                  !.orientation = Mat4ToQuat(<< rot[1], rot[2], rot[3] >>),
                  !.matrix = NilMatrix]

----------------------------------------------------------------------------
(* The specification of the Transform: one instance, moved step by step *)

StepSizes == { -2 * MaxStep, -MaxStep, 0, MaxStep, 2 * MaxStep }

Steps == { <<x, y, z>> : x \in StepSizes, y \in StepSizes, z \in StepSizes }

NewVec(v) == [kind |-> "Vec3", v |-> v]

InRange(v) == \A i \in 1..3 : Abs(v[i]) <= MaxTravel

InitTransform ==
    /\ op = "init"
    /\ a = NewTransform
    /\ b = NoShape
    /\ arg = NoArg
    /\ ret = NoRet
    /\ calls = NoCalls

\* a.SetPosition(v)
CallSetPosition ==
    \E v \in Steps :
        /\ op' = "SetPosition"
        /\ arg' = NewVec(v)
        /\ a' = SetPosition(a, v)
        /\ ret' = NoRet
        /\ UNCHANGED <<b, calls>>

\* a.Translate(v)
CallTranslate ==
    \E v \in Steps :
        /\ InRange(Add3(a.position, v))
        /\ op' = "Translate"
        /\ arg' = NewVec(v)
        /\ a' = Translate(a, v)
        /\ ret' = NoRet
        /\ UNCHANGED <<b, calls>>

\* a.Pos()
CallPos ==
    /\ op' = "Pos"
    /\ arg' = NoArg
    /\ ret' = [pos |-> Pos(a)]
    /\ UNCHANGED <<a, b, calls>>

NextTransform ==
    \/ CallSetPosition
    \/ CallTranslate
    \/ CallPos

SpecTransform == InitTransform /\ [][NextTransform]_vars

----------------------------------------------------------------------------
(* Claims about the Transform *)

\* C19: Translate(v) translates the object by v: after the call Pos() equals
\* the previous Pos() + v on every component, for every previous position and
\* every v (so the vectors of a sequence of Translate calls add up).
C19_Translate ==
    [][op' = "Translate" => Pos(a') = Add3(Pos(a), arg'.v)]_vars

----------------------------------------------------------------------------
(* Claims about the rays parallel to the faces of a box *)

\* the component of the ray direction along axis i of the box, in units of
\* 1/Unit^2
DirectionAlong(box, ray, i) == Dot(LocalAxes(box)[i], ray.Direction)

\* the ray origin lies outside the slab of the box on its axis i
OriginOutsideSlab(box, ray, i) ==
    Abs(Dot(LocalAxes(box)[i], Sub3(ray.Origin, box.Position))) > box.Size[i] * Unit

\* C20: in AABB.Raycast and OBB.Raycast, for every box axis on which the
\* direction component of the ray is zero (also when two are zero at once): if
\* the ray origin lies outside the slab of the box on that axis the result is
\* a failure with reason OutsideBounds; otherwise the zero component is
\* replaced by a signed smallest non-zero value before the division, so no
\* division by zero is performed on any axis.
C20_ParallelRay ==
    (op = "Raycast" /\ IsBox(a)) =>
        LET g == IF a.kind = "AABB" THEN AABBDivisors(arg) ELSE OBBDivisors(a, arg)
        IN  /\ \A i \in 1..3 :
                  (DirectionAlong(a, arg, i) = 0 /\ OriginOutsideSlab(a, arg, i)) =>
                      (ret.hit = FALSE /\ ret.res.Fail = "OutsideBounds")
            /\ \A i \in 1..3 : ~FEq(g[i], FZero)

----------------------------------------------------------------------------
(* Concurrent queries.  A query is the sequence of its reads and writes of   *)
(* scratch-array elements; two goroutines run one query each, one access at  *)
(* a time.  The fields Position, Size and Orientation are only ever read.    *)

Goroutines == {1, 2}

\* the arrays a goroutine can touch: the scratch arrays of the shared
\* instances a and b, those of its own copies of a and of b, those of the
\* temporary AABB of an identity OBB, and the package variable aabbAxes
CopyOfA(g) == <<"copy of a (1)", "copy of a (2)">>[g]

CopyOfB(g) == <<"copy of b (1)", "copy of b (2)">>[g]

Temporary(g) == <<"temporary AABB (1)", "temporary AABB (2)">>[g]

\* a plausible slip: the scratch storage is a slice, which copies share
OwnerShared(g, target) ==
    IF target = "copy of a" THEN "a"
    ELSE IF target = "copy of b" THEN "b"
    ELSE target

\* the copies of one struct value have arrays of their own
Owner(g, target) ==
    IF target = "copy of a" THEN CopyOfA(g)
    ELSE IF target = "copy of b" THEN CopyOfB(g)
    ELSE target

Write(owner, array, index, value) ==
    [owner |-> owner, array |-> array, index |-> index, w |-> TRUE, value |-> value]

Read(owner, array, index) ==
    [owner |-> owner, array |-> array, index |-> index, w |-> FALSE, value |-> Zero3]

\* the accesses of Corners(): the assignments to corners[...]
CornersAccesses(box, owner, g) ==
    IF box.kind = "AABB"
    THEN [k \in 1..8 |-> Write(owner, "corners", AABBCornerSlot[k], AABBCornerPoints(box)[k])]
    ELSE IF box.Orientation = QuatIdent
    THEN [k \in 1..8 |-> Write(Temporary(g), "corners", AABBCornerSlot[k], AABBCornerPoints(box)[k])]
    ELSE [k \in 1..8 |-> Write(owner, "corners", k, OBBRotatedCorners(box)[k])]

\* the accesses of Axes(): the assignments to axes[...] of a rotated OBB
AxesAccesses(box, owner) ==
    IF IsRotated(box)
    THEN [i \in 1..3 |-> Write(owner, "axes", i, AxesTable[box.Orientation][i])]
    ELSE << >>

\* the accesses of ProjectOntoAxis(): Corners(), then vertex[0], ..., vertex[7]
\* of the slice it returned
ProjectAccesses(box, owner, g) ==
    LET slice == IF IsIdentityOBB(box) THEN Temporary(g) ELSE owner
    IN  CornersAccesses(box, owner, g) \o [k \in 1..8 |-> Read(slice, "corners", k)]

\* reading element i of the slice Axes() returned
AxisRead(box, owner, i) ==
    << Read(IF IsRotated(box) THEN owner ELSE "aabbAxes", "axes", i) >>

\* the accesses of OverlapOnAxis(x, y, axis); c holds the two boxes, the
\* owners of their arrays and the goroutine
OverlapAccesses(c) == ProjectAccesses(c.x, c.ox, c.g) \o ProjectAccesses(c.y, c.oy, c.g)

\* the accesses of the loops of IntersectsBox3, up to its return
RECURSIVE LoopBAccesses(_, _)
LoopBAccesses(c, j) ==
    IF j < 3
    THEN LET acc == AxisRead(c.y, c.oy, j + 1) \o OverlapAccesses(c)
         IN  IF ~OverlapOnAxis(c.x, c.y, Axes(c.y)[j + 1]) THEN acc
             ELSE acc \o LoopBAccesses(c, j + 1)
    ELSE << >>

RECURSIVE LoopAAccesses(_, _)
RECURSIVE LoopCrossAccesses(_, _, _)
LoopAAccesses(c, i) ==
    IF i < 3
    THEN LET acc == AxisRead(c.x, c.ox, i + 1) \o OverlapAccesses(c)
         IN  IF ~OverlapOnAxis(c.x, c.y, Axes(c.x)[i + 1]) THEN acc
             ELSE acc \o LoopCrossAccesses(c, i, 0)
    ELSE << >>

LoopCrossAccesses(c, i, j) ==
    IF i < 3
    THEN LET acc == AxisRead(c.y, c.oy, j + 1) \o AxisRead(c.x, c.ox, i + 1) \o OverlapAccesses(c)
         IN  IF ~OverlapOnAxis(c.x, c.y, Cross(Axes(c.y)[j + 1], Axes(c.x)[i + 1])) THEN acc
             ELSE acc \o LoopCrossAccesses(c, i + 1, j)
    ELSE LoopAAccesses(c, i + 1)

\* the accesses of IntersectsBox3(x, y)
IntersectsAccesses(c) ==
    AxesAccesses(c.x, c.ox) \o AxesAccesses(c.y, c.oy) \o LoopBAccesses(c, 0) \o
    (IF SATLoopB(c.x, c.y, Axes(c.y), 0) THEN LoopAAccesses(c, 0) ELSE << >>)

Methods == {"Corners", "Axes", "ProjectOntoAxis", "IntersectsBox3"}

Targets == {"a", "b", "copy of a", "copy of b"}

\* the other operand of IntersectsBox3
Other(target) ==
    IF target = "a" THEN "b"
    ELSE IF target = "b" THEN "a"
    ELSE IF target = "copy of a" THEN "copy of b"
    ELSE "copy of a"

\* goroutine g calls method on target, where x is the box the target names
\* and y the other one
NewCall(g, method, target, x, y) ==
    LET c == [x |-> x, ox |-> Owner(g, target), y |-> y, oy |-> Owner(g, Other(target)), g |-> g]
    IN  [method |-> method, target |-> target, pc |-> 1,
         accesses |-> IF method = "Corners" THEN CornersAccesses(x, c.ox, g)
                      ELSE IF method = "Axes" THEN AxesAccesses(x, c.ox)
                      ELSE IF method = "ProjectOntoAxis" THEN ProjectAccesses(x, c.ox, g)
                      ELSE IntersectsAccesses(c)]

----------------------------------------------------------------------------
(* The specification of two concurrent queries *)

\* the boxes of the concurrent queries: the first at the origin, the second
\* next to it
RaceFirstBoxes ==
    { NewAABB(Zero3, <<1, 1, 1>>), NewOBB(Zero3, <<1, 1, 1>>, QuatIdent),
      NewOBB(Zero3, <<1, 1, 1>>, QuatRotZ) }

RaceSecondBoxes ==
    { NewAABB(<<1, 0, 0>>, <<1, 1, 1>>), NewOBB(<<3, 0, 0>>, <<1, 1, 1>>, QuatRotX) }

TargetBox(target, x, y) == IF target \in {"a", "copy of a"} THEN x ELSE y

\* the first goroutine queries a or its own copy of a, the second calls one
\* of the single-box queries on any target
InitRace ==
    /\ op = "init"
    /\ a \in RaceFirstBoxes
    /\ b \in RaceSecondBoxes
    /\ arg = NoArg
    /\ ret = NoRet
    /\ \E m1 \in Methods, t1 \in {"a", "copy of a"}, m2 \in Methods \ {"IntersectsBox3"}, t2 \in Targets :
          calls = << NewCall(1, m1, t1, TargetBox(t1, a, b), TargetBox(Other(t1), a, b)),
                     NewCall(2, m2, t2, TargetBox(t2, a, b), TargetBox(Other(t2), a, b)) >>

Running(g) == g \in DOMAIN calls /\ calls[g].pc <= Len(calls[g].accesses)

NextAccess(g) == calls[g].accesses[calls[g].pc]

\* the shared instance after the write; the arrays of the copies and of the
\* temporaries are not part of the state
Written(box, name, acc) ==
    IF acc.owner # name THEN box
    ELSE IF acc.array = "corners" THEN [box EXCEPT !.corners[acc.index] = acc.value]
    ELSE [box EXCEPT !.axes[acc.index] = acc.value]

\* goroutine g stores one element
StepWrite(g) ==
    /\ Running(g)
    /\ NextAccess(g).w
    /\ a' = Written(a, "a", NextAccess(g))
    /\ b' = Written(b, "b", NextAccess(g))
    /\ calls' = [calls EXCEPT ![g].pc = @ + 1]
    /\ UNCHANGED <<op, arg, ret>>

\* goroutine g loads one element
StepRead(g) ==
    /\ Running(g)
    /\ ~NextAccess(g).w
    /\ calls' = [calls EXCEPT ![g].pc = @ + 1]
    /\ UNCHANGED <<op, a, b, arg, ret>>

NextRace ==
    \E g \in Goroutines :
        \/ StepWrite(g)
        \/ StepRead(g)

SpecRace == InitRace /\ [][NextRace]_vars

----------------------------------------------------------------------------
(* Claims about concurrent queries *)

SameCell(x, y) == x.owner = y.owner /\ x.array = y.array /\ x.index = y.index

\* the next accesses of g and h are to one element, and g's is a write
Overwrites(g, h) ==
    /\ Running(g) /\ Running(h)
    /\ SameCell(NextAccess(g), NextAccess(h))
    /\ NextAccess(g).w

DataRace == \E g \in Goroutines : \E h \in Goroutines \ {g} : Overwrites(g, h)

\* the shared instances a call works on
Instances(call) ==
    (IF call.method = "IntersectsBox3" THEN {call.target, Other(call.target)} ELSE {call.target})
        \cap {"a", "b"}

\* the scratch-array elements a call touches; aabbAxes is a package variable
\* that is only read
CacheCells(call) ==
    { <<call.accesses[k].owner, call.accesses[k].array, call.accesses[k].index>> :
        k \in { n \in 1..Len(call.accesses) : call.accesses[n].owner # "aabbAxes" } }

\* C18: two queries running concurrently against the same shape instance
\* (Corners, Axes, ProjectOntoAxis or IntersectsBox3 on one rotated OBB,
\* Corners or ProjectOntoAxis on one AABB) can reach a state in which one call
\* reads an element of the instance's corners or axes scratch array while the
\* other call is overwriting it; concurrent queries on distinct instances or
\* on per-caller copies never touch a common element of a scratch array, so
\* every data race is between two calls on one shared instance.
C18_RaceOnlyOnSharedInstance ==
    calls # NoCalls =>
        /\ Instances(calls[1]) \cap Instances(calls[2]) = {} =>
              CacheCells(calls[1]) \cap CacheCells(calls[2]) = {}
        /\ DataRace =>
              \E name \in Instances(calls[1]) \cap Instances(calls[2]) :
                  \E g \in Goroutines : NextAccess(g).owner = name

\* C18 witness: on one rotated OBB, ProjectOntoAxis is about to read an
\* element of corners that a concurrent Corners is about to overwrite
C18_Witness ==
    /\ calls # NoCalls
    /\ IsRotated(a)
    /\ calls[1].method = "ProjectOntoAxis" /\ calls[1].target = "a"
    /\ calls[2].method = "Corners" /\ calls[2].target = "a"
    /\ Overwrites(2, 1)
    /\ ~NextAccess(1).w
    /\ NextAccess(1).owner = "a"

----------------------------------------------------------------------------
(* Claims about the normal of a box raycast (checked under SpecBox) *)

\* the six faces of a box: face k is on local axis (k + 1) \div 2, on the
\* positive side for odd k
FaceNormal(box, k) ==
    Mul3(LocalAxes(box)[(k + 1) \div 2], IF k % 2 = 1 THEN 1 ELSE -1)

\* pt is on the plane of face k: its offset from the centre along the
\* outward normal is the half size on that axis
OnFace(box, pt, k) ==
    FEq(FDot(FixedToF(FaceNormal(box, k)), FSub3(pt, WorldToF(box.Position))),
        FInt(box.Size[(k + 1) \div 2]))

\* C21: on every successful AABB.Raycast or OBB.Raycast, result.Normal is
\* the outward unit normal of the face whose slab-boundary distance is the
\* chosen result.Distance, that is of a face on which result.Point lies, and
\* for a ray that starts outside the box it does not point along the ray.
C21_FaceNormal ==
    (op = "Raycast" /\ IsBox(a) /\ ret.hit = TRUE) =>
        \E k \in 1..6 :
            /\ ret.res.Normal = FaceNormal(a, k)
            /\ OnFace(a, ret.res.Point, k)
            /\ ~ContainsPoint3(a, Mul3(arg.Origin, PointScale)) =>
                  FLe(FDot(FixedToF(FaceNormal(a, k)), FixedToF(arg.Direction)), FZero)

----------------------------------------------------------------------------
(* Claims about the result of MTVAABB and MTVRect (checked under SpecMTV) *)

\* v has exactly one non-zero component, on axis k
OnAxis(v, k) == v[k] # 0 /\ \A j \in DOMAIN v \ {k} : v[j] = 0

\* C22: AABB.MTVAABB and Rect.MTVRect return ok = false iff the two boxes
\* have zero overlap amount on at least one axis (boxes that do not
\* intersect and boxes that only touch); otherwise they return ok = true
\* with a vector that has exactly one non-zero component, on an axis whose
\* overlap amount is minimal among all axes, of absolute value equal to that
\* overlap amount.
C22_MTVResult ==
    /\ op = "MTVAABB" =>
          /\ ret.ok = FALSE <=> \E k \in 1..3 : AABBOverlapOn(a, b, k) = 0
          /\ ret.ok = TRUE =>
                \E k \in 1..3 :
                    /\ OnAxis(ret.vec, k)
                    /\ Abs(ret.vec[k]) = AABBOverlapOn(a, b, k)
                    /\ \A j \in 1..3 : AABBOverlapOn(a, b, k) <= AABBOverlapOn(a, b, j)
    /\ op = "MTVRect" =>
          /\ ret.ok = FALSE <=> \E k \in 1..2 : RectOverlapOn(a, b, k) = 0
          /\ ret.ok = TRUE =>
                \E k \in 1..2 :
                    /\ OnAxis(ret.vec, k)
                    /\ Abs(ret.vec[k]) = RectOverlapOn(a, b, k)
                    /\ \A j \in 1..2 : RectOverlapOn(a, b, k) <= RectOverlapOn(a, b, j)

\* C22 witness: MTVAABB has refused two boxes that only touch
C22_Witness ==
    /\ op = "MTVAABB"
    /\ ret.ok = FALSE
    /\ AABBIntersectsAABB(a, b)
    /\ \E k \in 1..3 : AABBMax(a)[k] = AABBMin(b)[k]

----------------------------------------------------------------------------
(* Claims about the points of a plane (checked under SpecPlane) *)

\* C23: the operations of Plane3 agree on which points are on the plane: for
\* every plane with a unit normal, of any Distance, and every ray for which
\* Plane3.Raycast reports a hit, ContainsPoint3(result.Point) is true and
\* ClosestPoint(result.Point) equals result.Point within the tolerance of cmp.
C23_PlanePoints ==
    /\ op = "Plane3.ContainsPoint3" => ret.ok = TRUE
    /\ op = "Plane3.ClosestPoint" => \A i \in 1..3 : Cmp(ret.point[i], arg.v[i])

----------------------------------------------------------------------------
(* Claims relating Corners and ContainsPoint3 (checked under SpecBox) *)

\* a fixed vector as a point in units of 1/PointScale
FixedToPoint(v) == Mul3(v, PointScale \div Unit)

\* C24: for every well-formed box (an AABB, or an OBB of any orientation and
\* any Position, a rotated OBB away from the origin included), each of the
\* eight points Corners() returns is contained in the same box according to
\* ContainsPoint3: corners lie on the inclusive boundary.
C24_CornersContained ==
    (op = "Corners" /\ IsBox(a)) =>
        \A k \in 1..8 : ContainsPoint3(a, FixedToPoint(ret.corners[k]))

----------------------------------------------------------------------------
(* The specification of the matrix cache: one Transform, its setters and     *)
(* Matrix() called in any order                                              *)

\* the distances of TranslateAlong
AlongSteps == { -2 * MaxStep, 2 * MaxStep }

\* the scales of SetScaleUniform and the factors of ScaleUniformBy
UniformScales == { k * PosScale : k \in 1..MaxScale }

ScaleFactors == 1..MaxScale

\* the arguments of SetOrientation and Rotate: the orientations of the boxes,
\* and a quaternion that is not normalized
Rotations == Quats \cup { <<2, 0, 0, 0>> }

NewQuat(q) == [kind |-> "Quat", q |-> q]

NewFloat(v) == [kind |-> "float32", v |-> v]

NewMat4(m) == [kind |-> "Mat4", m |-> m]

\* the arguments of SetMatrix: matrices Matrix() can return
Matrices ==
    { ComposeMatrix(p, q, <<k, k, k>>) :
        p \in { Zero3, <<2 * MaxStep, 0, 0>> }, q \in Quats, k \in UniformScales }

\* a.TranslateAlong(v, axis)
CallTranslateAlong ==
    \E v \in AlongSteps, axis \in {X3, Y3, Z3} :
        /\ InRange(Pos(TranslateAlong(a, v, axis)))
        /\ op' = "TranslateAlong"
        /\ arg' = NewVec(Mul3(axis, v))
        /\ a' = TranslateAlong(a, v, axis)
        /\ ret' = NoRet
        /\ UNCHANGED <<b, calls>>

\* a.SetScaleUniform(v)
CallSetScaleUniform ==
    \E v \in UniformScales :
        /\ op' = "SetScaleUniform"
        /\ arg' = NewFloat(v)
        /\ a' = SetScaleUniform(a, v)
        /\ ret' = NoRet
        /\ UNCHANGED <<b, calls>>

\* a.ScaleUniformBy(v), while the scale stays within MaxScale
CallScaleUniformBy ==
    \E v \in ScaleFactors :
        /\ \A i \in 1..3 : a.scale[i] * v <= MaxScale * PosScale
        /\ op' = "ScaleUniformBy"
        /\ arg' = NewFloat(v)
        /\ a' = ScaleUniformBy(a, v)
        /\ ret' = NoRet
        /\ UNCHANGED <<b, calls>>

\* a.SetOrientation(q)
CallSetOrientation ==
    \E q \in Rotations :
        /\ op' = "SetOrientation"
        /\ arg' = NewQuat(q)
        /\ a' = SetOrientation(a, q)
        /\ ret' = NoRet
        /\ UNCHANGED <<b, calls>>

\* a.Rotate(q), while the orientation stays one of the model: one of the two
\* factors is the identity rotation
CallRotate ==
    \E q \in Rotations :
        /\ QNorm(QNormalize(q)) = 1 \/ QNorm(a.orientation) = 1
        /\ op' = "Rotate"
        /\ arg' = NewQuat(q)
        /\ a' = TransformRotate(a, q)
        /\ ret' = NoRet
        /\ UNCHANGED <<b, calls>>

\* a.Matrix()
CallMatrix ==
    /\ op' = "Matrix"
    /\ arg' = NoArg
    /\ ret' = [matrix |-> Matrix(a)]
    /\ a' = AfterMatrix(a)
    /\ UNCHANGED <<b, calls>>

\* a.SetMatrix(m)
CallSetMatrix ==
    \E m \in Matrices :
        /\ op' = "SetMatrix"
        /\ arg' = NewMat4(m)
        /\ a' = SetMatrix(a, m)
        /\ ret' = NoRet
        /\ UNCHANGED <<b, calls>>

NextMatrix ==
    \/ CallTranslateAlong
    \/ CallSetScaleUniform
    \/ CallScaleUniformBy
    \/ CallSetOrientation
    \/ CallRotate
    \/ CallMatrix
    \/ CallSetMatrix

SpecMatrix == InitTransform /\ [][NextMatrix]_vars

----------------------------------------------------------------------------
(* Claims about the matrix cache *)

\* the cached matrix, when there is one, is the composition of the fields
CacheFresh(t) ==
    t.matrix # NilMatrix => t.matrix = ComposeMatrix(t.position, t.orientation, t.scale)

\* C25: the matrix cache of a Transform is never stale: after any sequence of
\* operations (the setters of position, scale and orientation, SetMatrix,
\* the methods built on them, and Matrix calls in between), a cached matrix
\* that is not nil equals translate(position).rotate(orientation).scale(scale)
\* of the current fields, so Matrix() returns the composition of the current
\* fields; Matrix() itself changes no field other than the cache.
C25_CacheNeverStale ==
    /\ [](/\ CacheFresh(a)
          /\ op = "Matrix" => ret.matrix = ComposeMatrix(a.position, a.orientation, a.scale))
    /\ [][op' = "Matrix" =>
            /\ a'.position = a.position
            /\ a'.scale = a.scale
            /\ a'.orientation = a.orientation]_vars

\* C25 witness: Matrix() has filled the cache of a Transform that was moved,
\* scaled and rotated
C25_Witness ==
    /\ op = "Matrix"
    /\ a.matrix # NilMatrix
    /\ a.position # NewTransform.position
    /\ a.scale # NewTransform.scale
    /\ QNorm(a.orientation) # 1

====
